---- MODULE Spec2Model ----
(***************************************************************************)
(* A state-machine model of the glassroom instrument:                      *)
(*   - the musical quantizer of src/src/music/quantize.ts (pure function), *)
(*   - the particle simulation of src/components/Visualizer.tsx            *)
(*     (spawn, frame callback, cull timer, reset) driven by the transport  *)
(*     of src/App.tsx.                                                     *)
(* JavaScript numbers are IEEE doubles.  Pitches are held in eighths of a  *)
(* semitone (PU units per semitone), so that the 0.25 leading-tone penalty *)
(* and the ties it can create are exact.                                   *)
(***************************************************************************)
EXTENDS Integers, Sequences, FiniteSets, TLC

VARIABLES
    qreq,         \* the (inputMidi, cfg) pair handed to quantizeMidiToScale
    qres,         \* its return value, or NoResult before the call
    bubbles,      \* bubblesRef.current: the particle array, in array order
    isDrawing,    \* isDrawingRef.current
    lastSpawnPos, \* lastSpawnPos.current: <<x, y>> in pixels, or NoPos
    isPlaying,    \* App state isPlaying (the Visualizer's prop)
    physics,      \* App state physicsKnobs, knob values in tenths
    nextId,       \* the next fresh particle id (uuidv4 never repeats)
    ticks,        \* number of simulation ticks run so far
    frame,        \* what the step just taken did, if it was a frame
                  \* callback or the cull timer; NoFrame after any other step
    resetMark,    \* nextId at the last reset: smaller ids existed before it
    audio,        \* the AudioEngine singleton (audioService)
    hasInteracted, \* App state hasInteracted
    lifecycle,    \* the init / resume / suspend calls App has issued so far
    baseFrequency, \* App state audioSettings.baseFrequency, in Hz
    loop,         \* the Visualizer's frame loop: the animation-frame requests
                  \* the browser holds and requestRef.current
    knob          \* one pointer-driven Knob and the listeners it has on window

qvars == <<qreq, qres>>

simvars == <<bubbles, isDrawing, lastSpawnPos, isPlaying, physics, nextId,
             ticks, frame, resetMark>>

appvars == <<hasInteracted, lifecycle, baseFrequency>>

vars == <<qreq, qres, bubbles, isDrawing, lastSpawnPos, isPlaying, physics,
          nextId, ticks, frame, resetMark, audio, hasInteracted, lifecycle,
          baseFrequency, loop, knob>>

(***************************************************************************)
(* Numbers                                                                 *)
(***************************************************************************)

\* The IEEE NaN, as a value outside every range the model computes with.
NaN == -999999999

IsNaN(a) == a = NaN

\* JavaScript's % : the remainder takes the sign of the dividend.
JsRem(n, m) == IF n >= 0 THEN n % m ELSE -((-n) % m)

\* const mod = (n, m) => ((n % m) + m) % m
mod(n, m) == JsRem(JsRem(n, m) + m, m)

Abs(a) == IF a < 0 THEN -a ELSE a

\* Division rounded to the nearest integer, halves away from zero (b > 0).
RDiv(a, b) ==
    IF a >= 0 THEN (2 * a + b) \div (2 * b) ELSE -((2 * (-a) + b) \div (2 * b))

\* IEEE arithmetic on values that may be NaN: NaN is absorbing, and every
\* comparison with NaN is false.
NAdd(a, b) == IF IsNaN(a) \/ IsNaN(b) THEN NaN ELSE a + b
NSub(a, b) == IF IsNaN(a) \/ IsNaN(b) THEN NaN ELSE a - b
NMul(a, b) == IF IsNaN(a) \/ IsNaN(b) THEN NaN ELSE a * b
NMulDiv(a, b, d) == IF IsNaN(a) \/ IsNaN(b) THEN NaN ELSE RDiv(a * b, d)
NLt(a, b) == ~IsNaN(a) /\ ~IsNaN(b) /\ a < b
NGt(a, b) == ~IsNaN(a) /\ ~IsNaN(b) /\ a > b
NAbs(a) == IF IsNaN(a) THEN NaN ELSE Abs(a)

\* Op applied to the value of e, which is computed once.
Then(e, Op(_)) == CHOOSE r \in { Op(x) : x \in {e} } : TRUE

RECURSIVE SqrtSearch(_, _, _)
SqrtSearch(n, lo, hi) ==
    IF lo >= hi THEN lo
    ELSE Then((lo + hi + 1) \div 2,
              LAMBDA mid : IF mid * mid <= n THEN SqrtSearch(n, mid, hi)
                           ELSE SqrtSearch(n, lo, mid - 1))

\* Math.sqrt, rounded to the nearest unit.
Sqrt(n) ==
    Then(SqrtSearch(n, 0, 46340),
         LAMBDA s : IF n - s * s > s THEN s + 1 ELSE s)

RECURSIVE CbrtSearch(_, _, _)
CbrtSearch(n, lo, hi) ==
    IF lo >= hi THEN lo
    ELSE Then((lo + hi + 1) \div 2,
              LAMBDA mid : IF mid * mid * mid <= n THEN CbrtSearch(n, mid, hi)
                           ELSE CbrtSearch(n, lo, mid - 1))

\* Math.pow(n, 1/3), rounded to the nearest unit.
Cbrt(n) ==
    Then(CbrtSearch(n, 0, 1290),
         LAMBDA k : IF 8 * (n - k * k * k) >= 12 * k * k + 6 * k + 1
                    THEN k + 1 ELSE k)

(***************************************************************************)
(* Musical quantizer                                                       *)
(***************************************************************************)

\* Pitch units per semitone in the model.
PU == 8

\* One octave, in pitch units.
OctU == 12 * PU

\* qres before the call returns.
NoResult == <<>>

\* SCALES after defineScale/normalizeIntervals: sorted unique intervals.
SCALES ==
    << [id |-> "ionian",           intervals |-> {0, 2, 4, 5, 7, 9, 11}, no3rd |-> FALSE, avoidLT |-> TRUE],
       [id |-> "aeolian",          intervals |-> {0, 2, 3, 5, 7, 8, 10}, no3rd |-> FALSE, avoidLT |-> FALSE],
       [id |-> "dorian",           intervals |-> {0, 2, 3, 5, 7, 9, 10}, no3rd |-> FALSE, avoidLT |-> FALSE],
       [id |-> "mixolydian",       intervals |-> {0, 2, 4, 5, 7, 9, 10}, no3rd |-> FALSE, avoidLT |-> FALSE],
       [id |-> "phrygian",         intervals |-> {0, 1, 3, 5, 7, 8, 10}, no3rd |-> FALSE, avoidLT |-> FALSE],
       [id |-> "minor-pentatonic", intervals |-> {0, 3, 5, 7, 10},       no3rd |-> FALSE, avoidLT |-> FALSE],
       [id |-> "major-pentatonic", intervals |-> {0, 2, 4, 7, 9},        no3rd |-> FALSE, avoidLT |-> FALSE],
       [id |-> "quartal",          intervals |-> {0, 5, 7, 10},          no3rd |-> TRUE,  avoidLT |-> FALSE],
       [id |-> "sus-hybrid",       intervals |-> {0, 2, 5, 7, 9},        no3rd |-> TRUE,  avoidLT |-> FALSE],
       [id |-> "harmonic-minor",   intervals |-> {0, 2, 3, 5, 7, 8, 11}, no3rd |-> FALSE, avoidLT |-> FALSE],
       [id |-> "melodic-minor",    intervals |-> {0, 2, 3, 5, 7, 9, 11}, no3rd |-> FALSE, avoidLT |-> FALSE],
       [id |-> "whole-tone",       intervals |-> {0, 2, 4, 6, 8, 10},    no3rd |-> FALSE, avoidLT |-> FALSE],
       [id |-> "chromatic",        intervals |-> 0..11,                  no3rd |-> FALSE, avoidLT |-> FALSE],
       [id |-> "drone-1-3",        intervals |-> {0, 2, 5, 7, 9, 10},    no3rd |-> TRUE,  avoidLT |-> FALSE] >>

\* ScaleDef values a caller can build that are not in SCALES: the interface
\* lets intervals be any number[] (also empty, or thirds only).
EdgeScales ==
    << [id |-> "only-3",  intervals |-> {3},    no3rd |-> FALSE, avoidLT |-> FALSE],
       [id |-> "only-4",  intervals |-> {4},    no3rd |-> TRUE,  avoidLT |-> FALSE],
       [id |-> "thirds",  intervals |-> {3, 4}, no3rd |-> FALSE, avoidLT |-> FALSE],
       [id |-> "empty",   intervals |-> {},     no3rd |-> FALSE, avoidLT |-> FALSE] >>

AllScales == SCALES \o EdgeScales

getScaleById(id) ==
    IF \E i \in 1..Len(SCALES) : SCALES[i].id = id
    THEN SCALES[CHOOSE i \in 1..Len(SCALES) : SCALES[i].id = id]
    ELSE SCALES[CHOOSE i \in 1..Len(SCALES) : SCALES[i].id = "minor-pentatonic"]

\* The interval filter without its two fallbacks; C25 fails for it.
FilteredIntervalsNoFallback(scale, cfg) ==
    IF cfg.noThirds \/ scale.no3rd THEN scale.intervals \ {3, 4}
    ELSE scale.intervals

\* The interval filter of buildAllowedPitchClasses (lines 19-26).
FilteredIntervals(scale, cfg) ==
    LET scaleIntervals == scale.intervals
        filtered == IF cfg.noThirds \/ scale.no3rd
                    THEN scaleIntervals \ {3, 4}
                    ELSE scaleIntervals
        f2 == IF filtered = {} THEN scaleIntervals ELSE filtered
    IN  IF f2 = {} THEN {0} ELSE f2

\* buildAllowedPitchClasses: the allowed pitch classes (semitones 0..11).
buildAllowedPitchClasses(rootMidi, scale, cfg) ==
    LET rootPc == mod(rootMidi, 12)
    IN  { mod(rootPc + i, 12) : i \in FilteredIntervals(scale, cfg) }

\* buildCandidates without the pitch-class offset; C5 fails for it.
buildCandidatesNoOffset(inputU, allowedPitchClasses) ==
    UNION { LET base == inputU - mod(inputU, OctU)
            IN  {base - OctU, base, base + OctU} : pc \in allowedPitchClasses }

\* buildCandidates: per allowed pitch class the pitch at or below the input
\* and its two octave neighbours; all in pitch units.
buildCandidates(inputU, allowedPitchClasses) ==
    UNION { LET base == inputU - mod(inputU - pc * PU, OctU)
            IN  {base - OctU, base, base + OctU} : pc \in allowedPitchClasses }

\* The leading-tone penalty 0.25, in pitch units.
LeadingTonePenalty == 2

\* Scored with a penalty above one semitone; C6 fails for it.
ScoredHeavyPenalty(inputU, midiU, avoidLeadingTone, leadingTonePc) ==
    LET dist == Abs(midiU - inputU)
        pcU  == mod(midiU, OctU)
        penalty == IF avoidLeadingTone /\ pcU = leadingTonePc * PU
                   THEN PU + LeadingTonePenalty ELSE 0
    IN  [midi |-> midiU, dist |-> dist, score |-> dist + penalty]

Scored(inputU, midiU, avoidLeadingTone, leadingTonePc) ==
    LET dist == Abs(midiU - inputU)
        pcU  == mod(midiU, OctU)
        penalty == IF avoidLeadingTone /\ pcU = leadingTonePc * PU
                   THEN LeadingTonePenalty ELSE 0
    IN  [midi |-> midiU, dist |-> dist, score |-> dist + penalty]

\* The comparator with the final tie-break reversed; C8 fails for it.
BeforeHigherFirst(a, b) ==
    \/ a.score < b.score
    \/ a.score = b.score /\ a.dist < b.dist
    \/ a.score = b.score /\ a.dist = b.dist /\ a.midi > b.midi

\* The comparator of line 56: score, then dist, then midi.
Before(a, b) ==
    \/ a.score < b.score
    \/ a.score = b.score /\ a.dist < b.dist
    \/ a.score = b.score /\ a.dist = b.dist /\ a.midi < b.midi

RECURSIVE SortScored(_)
SortScored(S) ==
    IF S = {} THEN <<>>
    ELSE LET m == CHOOSE x \in S : \A y \in S : y = x \/ Before(x, y)
         IN  <<m>> \o SortScored(S \ {m})

\* pickCandidate without the two mode filters; C24 fails for it.
pickCandidateAnyDirection(inputU, candidates, mode, avoidLeadingTone, leadingTonePc) ==
    SortScored({ Scored(inputU, c, avoidLeadingTone, leadingTonePc)
                 : c \in candidates })

\* pickCandidate (lines 42-69): the candidates by score, restricted to those
\* at or below the input in "down" mode and at or above it in "up" mode when
\* there are any.
pickCandidate(inputU, candidates, mode, avoidLeadingTone, leadingTonePc) ==
    LET sorted == SortScored({ Scored(inputU, c, avoidLeadingTone, leadingTonePc)
                               : c \in candidates })
        below  == SelectSeq(sorted, LAMBDA c : c.midi <= inputU)
        above  == SelectSeq(sorted, LAMBDA c : c.midi >= inputU)
    IN  IF mode = "down" /\ Len(below) > 0 THEN below
        ELSE IF mode = "up" /\ Len(above) > 0 THEN above
        ELSE sorted

\* Math.round on a pitch in units: the nearest whole semitone, halves up.
MathRoundU(u) == ((u + PU \div 2) \div PU) * PU

\* The input after the Number.isFinite guard of line 72.
SafeInput(inputU, cfg) == IF IsNaN(inputU) THEN cfg.rootMidi * PU ELSE inputU

Ordered(inputU, cfg) ==
    LET safeInput == SafeInput(inputU, cfg)
        allowed == buildAllowedPitchClasses(cfg.rootMidi, cfg.scale, cfg)
        candidates == buildCandidates(safeInput, allowed)
        rootPc == mod(cfg.rootMidi, 12)
        leadingTonePc == mod(rootPc + 11, 12)
        avoidLeadingTone == cfg.avoidLeadingTone \/ cfg.scale.avoidLT
    IN  pickCandidate(safeInput, candidates, cfg.mode, avoidLeadingTone, leadingTonePc)

\* quantizeMidiToScale without the repeat rule; C7 fails for it.
quantizeKeepsRepeat(inputU, cfg) ==
    LET ordered == Ordered(inputU, cfg)
    IN  MathRoundU(IF Len(ordered) > 0 THEN ordered[1].midi
                   ELSE SafeInput(inputU, cfg))

\* quantizeMidiToScale; the result is a whole semitone, in pitch units.
quantizeMidiToScale(inputU, cfg) ==
    LET ordered == Ordered(inputU, cfg)
        first == IF Len(ordered) > 0 THEN ordered[1].midi ELSE SafeInput(inputU, cfg)
        alts == SelectSeq(ordered, LAMBDA c : c.midi # cfg.lastMidi)
        chosen == IF cfg.noImmediateRepeat /\ cfg.lastMidi # NaN /\ Len(alts) > 0
                  THEN alts[1].midi ELSE first
    IN  MathRoundU(chosen)

(***************************************************************************)
(* Inputs of the quantizer specification                                   *)
(***************************************************************************)

\* Lowest input pitch (semitones) and the number of semitones above it.
QLow == 59
QSpan == 7

\* Fractions of a semitone (in pitch units) the input is drawn with.
QFracs == {0, 3, 4, 5}

QInputs == { s * PU + f : s \in QLow..(QLow + QSpan), f \in QFracs } \cup {NaN}

QRoots == {60, 67}

\* lastMidi is absent when it is NaN here (cfg.lastMidi == null).
QLast == {NaN, 60 * PU, 63 * PU}

QConfigs ==
    [ rootMidi : QRoots,
      scale : { AllScales[i] : i \in 1..Len(AllScales) },
      mode : {"nearest", "down", "up"},
      noImmediateRepeat : BOOLEAN,
      lastMidi : QLast,
      avoidLeadingTone : BOOLEAN,
      noThirds : BOOLEAN ]

\* qreq while no call is being made.
QIdle == << >>

Quantize ==
    /\ qres = NoResult
    /\ qres' = <<quantizeMidiToScale(qreq.input, qreq.cfg)>>
    /\ UNCHANGED qreq
    /\ UNCHANGED simvars
    /\ UNCHANGED <<audio, appvars, loop, knob>>

NextQ == Quantize

(***************************************************************************)
(* Particle simulation (components/Visualizer.tsx)                         *)
(*                                                                         *)
(* Lengths, radii and velocities are fixed-point: FP units per pixel (per  *)
(* pixel and tick for velocities); each arithmetic result is rounded to    *)
(* the nearest unit.  Knob values are held in tenths (0..10 for 0..1).     *)
(* The deformation, colour and vertex fields of a Bubble only feed the     *)
(* renderer and are left out.                                              *)
(***************************************************************************)

FP == 10

DEPTH == 1000
GRID_SIZE == 120

\* canvas.width / canvas.height, copied from the container's client size.
CanvasW == 480
CanvasH == 384

WU == CanvasW * FP
HU == CanvasH * FP
DU == DEPTH * FP

NoPos == << >>

\* deformation.scaleX and deformation.scaleY are kept in thousandths.
SU == 1000

\* tempo: physicsKnobs.tempo * 2 + 0.1, in tenths.
Tempo(phys) == 2 * phys.tempo + 1

Ids(bs) == { bs[i].id : i \in 1..Len(bs) }

\* spawnBubble(x, y, z = 0, r?): the random draws are d.r (radius), d.v
\* (velocity) and d.z (depth, used when z is falsy: 0 or NaN).
spawnBubble(bs, id, x, y, z, r, d) ==
    Append(bs, [ id |-> id, x |-> x, y |-> y,
                 z |-> IF z = 0 \/ IsNaN(z) THEN d.z ELSE z,
                 vx |-> d.v[1], vy |-> d.v[2], vz |-> d.v[3],
                 radius |-> IF r = 0 THEN d.r ELSE r,
                 scaleX |-> SU, scaleY |-> SU ])

(***************************************************************************)
(* One particle's pass through the integration loop of animate             *)
(***************************************************************************)

\* Squared distance to the black hole at the centre of the room.
CentreDistSq(b) ==
    LET dx == NSub(WU \div 2, b.x)
        dy == NSub(HU \div 2, b.y)
        dz == NSub(DU \div 2, b.z)
    IN  NAdd(NAdd(NMul(dx, dx), NMul(dy, dy)), NMul(dz, dz))

\* dist < 40 + blackHole * 20
Swallowed(b, phys) ==
    /\ phys.blackHole >= 1
    /\ LET t == 40 * FP + phys.blackHole * 2 * FP
       IN  NLt(CentreDistSq(b), t * t)

\* Lines 296-308: the velocity change <<dvx, dvy, dvz>> the black hole gives:
\* attraction towards the centre plus the swirl in the x,y plane.
BlackHolePull(b, phys) ==
    LET dx == NSub(WU \div 2, b.x)
        dy == NSub(HU \div 2, b.y)
        dz == NSub(DU \div 2, b.z)
        distSq == CentreDistSq(b)
    IN  IF IsNaN(distSq)
        THEN <<NaN, NaN, NaN>>
        ELSE LET dist == Sqrt(distSq)
                 \* force, in hundredths of a unit
                 f100 == RDiv(phys.blackHole * 50000000,
                              IF distSq < 100000 THEN 100000 ELSE distSq)
                 h == Sqrt(dx * dx + dy * dy)
                 swirlX == IF h = 0 THEN 0 ELSE RDiv(-dy * phys.blackHole, 2 * h)
                 swirlY == IF h = 0 THEN RDiv(phys.blackHole, 2)
                           ELSE RDiv(dx * phys.blackHole, 2 * h)
             IN  << RDiv(dx * f100, dist * 100) + swirlX,
                    RDiv(dy * f100, dist * 100) + swirlY,
                    RDiv(dz * f100, dist * 100) >>

\* gravity * 0.15, the downward acceleration of line 320.
GravityDv(phys) == RDiv(phys.gravity * 15, 100)

\* s += (target - s) * 0.1
Smoothed(s, target) == NAdd(s, NMulDiv(NSub(target, s), 1, 10))

\* s += (1 - s) * 0.03
Relaxed(s) == NAdd(s, NMulDiv(NSub(SU, s), 3, 100))

\* 1 / f, for a scale factor f > 0 in thousandths.
Inverse(f) == IF IsNaN(f) THEN NaN ELSE RDiv(SU * SU, f)

\* Line 315: 1 + blackHole * 1500 / Math.max(100, dist).
stretchFactor(b, phys) ==
    LET distSq == CentreDistSq(b)
    IN  IF IsNaN(distSq) THEN NaN
        ELSE LET dist == Sqrt(distSq)
             IN  SU + RDiv(phys.blackHole * 150 * SU * FP,
                           IF dist < 100 * FP THEN 100 * FP ELSE dist)

\* Lines 282-323: black-hole attraction, swirl and stretch, or else gravity
\* and the relaxation of the deformation.
ApplyForces(b, phys) ==
    IF phys.blackHole >= 1
    THEN LET p == BlackHolePull(b, phys)
             f == stretchFactor(b, phys)
         IN  [b EXCEPT !.vx = NAdd(@, p[1]), !.vy = NAdd(@, p[2]),
                       !.vz = NAdd(@, p[3]),
                       !.scaleX = Smoothed(@, f),
                       !.scaleY = Smoothed(@, Inverse(f))]
    ELSE [b EXCEPT !.vy = NAdd(@, GravityDv(phys)),
                   !.scaleX = Relaxed(@), !.scaleY = Relaxed(@)]

\* Lines 325-330: wind jitter w, drawn per particle.
ApplyWind(b, w) ==
    [b EXCEPT !.vx = NAdd(@, w[1]), !.vy = NAdd(@, w[2]), !.vz = NAdd(@, w[3])]

\* Lines 332-334.
Integrate(b, phys) ==
    [b EXCEPT !.x = NAdd(@, NMulDiv(b.vx, Tempo(phys), 10)),
              !.y = NAdd(@, NMulDiv(b.vy, Tempo(phys), 10)),
              !.z = NAdd(@, NMulDiv(b.vz, Tempo(phys), 10))]

\* Lines 342-353: the stretch along the velocity, while the black hole is
\* below 0.2, the speed above 0.1 and scaleX within 0.3 of neutral.
Speed(b) ==
    Then(NAdd(NMul(b.vx, b.vx), NMul(b.vy, b.vy)),
         LAMBDA sq : IF IsNaN(sq) THEN NaN ELSE Sqrt(sq))

VelocityStretch(b, phys) ==
    Then(Speed(b), LAMBDA speed :
      Then(NAdd(SU, NMul(speed, 4)), LAMBDA stretchAmount :
        IF /\ phys.blackHole < 2
           /\ NGt(speed, 1)
           /\ NLt(NAbs(NSub(b.scaleX, SU)), 3 * (SU \div 10))
        THEN [b EXCEPT !.scaleX = Smoothed(@, stretchAmount),
                       !.scaleY = Smoothed(@, Inverse(stretchAmount))]
        ELSE b))

\* Line 373: a wall hit squashes the particle, while the black hole is
\* below 0.5.
Squash(b, hit, phys) ==
    IF hit /\ phys.blackHole < 5
    THEN [b EXCEPT !.scaleX = 12 * (SU \div 10), !.scaleY = 8 * (SU \div 10)]
    ELSE b

\* The velocity factor on a bounce off a wall: v *= -0.9.
Restitute(v) == NMulDiv(v, -9, 10)

WallX(b) ==
    IF NLt(NSub(b.x, b.radius), 0)
    THEN [b |-> [b EXCEPT !.x = b.radius, !.vx = Restitute(@)], hit |-> TRUE]
    ELSE IF NGt(NAdd(b.x, b.radius), WU)
    THEN [b |-> [b EXCEPT !.x = WU - b.radius, !.vx = Restitute(@)], hit |-> TRUE]
    ELSE [b |-> b, hit |-> FALSE]

WallY(b, phys) ==
    IF NLt(NSub(b.y, b.radius), 0)
    THEN [b |-> [b EXCEPT !.y = b.radius, !.vy = Restitute(@)], hit |-> TRUE]
    ELSE IF NGt(NAdd(b.y, b.radius), HU)
    THEN LET vy1 == IF phys.gravity > 5 THEN NMulDiv(b.vy, -6, 10)
                    ELSE Restitute(b.vy)
             vy2 == IF NLt(NAbs(vy1), 5) /\ phys.gravity > 5 THEN 0 ELSE vy1
         IN  [b |-> [b EXCEPT !.y = HU - b.radius, !.vy = vy2], hit |-> TRUE]
    ELSE [b |-> b, hit |-> FALSE]

WallZ(b) ==
    IF NLt(b.z, 0)
    THEN [b |-> [b EXCEPT !.z = 0, !.vz = Restitute(@)], hit |-> TRUE]
    ELSE IF NGt(b.z, DU)
    THEN [b |-> [b EXCEPT !.z = DU, !.vz = Restitute(@)], hit |-> TRUE]
    ELSE [b |-> b, hit |-> FALSE]

\* Lines 355-369: the three wall tests, in order.
Walls(b, phys) ==
    Then(WallX(b), LAMBDA wx :
      Then(WallY(wx.b, phys), LAMBDA wy :
        Then(WallZ(wy.b), LAMBDA wz :
          [b |-> wz.b, hit |-> wx.hit \/ wy.hit \/ wz.hit])))

\* Lines 371-372: a wall hit sounds when the particle is fast enough.
WallSound(b, hit, phys) ==
    /\ hit
    /\ phys.blackHole < 5
    /\ NGt(NAdd(NAdd(NAbs(b.vx), NAbs(b.vy)), NAbs(b.vz)), 5)

\* Math.floor(b.x / GRID_SIZE)
CellOf(x) == IF IsNaN(x) THEN NaN ELSE x \div (GRID_SIZE * FP)

\* grid[key].push(i), keys kept in insertion order.
GridPush(grid, gx, gy, i) ==
    IF \E k \in 1..Len(grid) : grid[k].gx = gx /\ grid[k].gy = gy
    THEN [k \in 1..Len(grid) |->
            IF grid[k].gx = gx /\ grid[k].gy = gy
            THEN [grid[k] EXCEPT !.idx = Append(@, i)] ELSE grid[k]]
    ELSE Append(grid, [gx |-> gx, gy |-> gy, idx |-> <<i>>])

\* A splice that always drops the head of the array; C18 fails for it.
RemoveHead(seq, i) == Tail(seq)

\* bubbles.splice(i, 1)
RemoveAt(seq, i) == SubSeq(seq, 1, i - 1) \o SubSeq(seq, i + 1, Len(seq))

(***************************************************************************)
(* Bounds of the model and the values the random draws are taken from      *)
(***************************************************************************)

\* Particles ever created (spawned or budded) in one run.
MaxIds == 2

\* Simulation ticks in one run.
MaxTicks == 1

\* Math.random() * 35 + 15 (radius), (Math.random() - 0.5) * 2 (velocity
\* components) and Math.random() * (DEPTH * 0.5) (depth) of spawnBubble.
SpawnDraws ==
    { [r |-> 45 * FP, v |-> <<6, -3, -4>>, z |-> 250 * FP],
      [r |-> 30 * FP, v |-> <<-6, 3, 4>>,  z |-> 470 * FP] }

\* The draws of the spawnBubble call that budding makes.
ChildDraws == { [r |-> 45 * FP, v |-> <<6, -3, -4>>, z |-> 250 * FP] }

\* (Math.random() - 0.5) * windForce per component, at most 0.075 px.
WindDraws == { <<1, -1, 1>> }

\* Mouse positions relative to the canvas, in pixels.
MousePts == { <<20, 100>>, <<250, 100>> }

\* 50 + Math.random() * 100: the depth of a bubble spawned by a mouse move.
MoveDepths == { 100 * FP }

\* physicsKnobs values the user turns the knobs to, in tenths.
PhysicsPresets ==
    { [tempo |-> 5,  gravity |-> 0,  budding |-> 0,  cannibalism |-> 0,  wind |-> 0,  blackHole |-> 0],
      [tempo |-> 10, gravity |-> 10, budding |-> 10, cannibalism |-> 5,  wind |-> 0,  blackHole |-> 0],
      [tempo |-> 5,  gravity |-> 10, budding |-> 0,  cannibalism |-> 10, wind |-> 10, blackHole |-> 10] }

\* The initial physicsKnobs of App (tempo 0.5, everything else 0).
DefaultPhysics ==
    [tempo |-> 5, gravity |-> 0, budding |-> 0, cannibalism |-> 0, wind |-> 0, blackHole |-> 0]

(***************************************************************************)
(* The integration loop (lines 278-388)                                    *)
(***************************************************************************)

\* The draw of the budding test that does not bud.
NoBud == [r |-> 0, v |-> <<0, 0, 0>>, z |-> 0]

\* Math.random() < buddingChance * 0.05 && b.radius > 15
BudChoices(b, phys, nid) ==
    {NoBud} \cup
    (IF phys.budding > 0 /\ b.radius > 15 * FP /\ nid <= MaxIds
     THEN ChildDraws ELSE {})

WindChoices(phys) == IF phys.wind > 0 THEN WindDraws ELSE { <<0, 0, 0>> }

\* The loop body up to the walls: forces, wind, integration, stretch, walls.
Moved(b1, phys, w) ==
    Then(Integrate(IF phys.wind > 0 THEN ApplyWind(b1, w) ELSE b1, phys),
         LAMBDA b2 : Then(VelocityStretch(b2, phys),
                          LAMBDA b : Walls(b, phys)))

\* triggerBubbleSound(b): the particle and the first argument handed to
\* audioService.triggerSound, 1 - b.radius / 180, in thousandths.
triggerBubbleSound(b) ==
    [id |-> b.id, radius |-> b.radius,
     sizeFactor |-> NSub(SU, NMulDiv(b.radius, SU, 180 * FP))]

\* The loop state after the particle b0 at index i went from b1 (forces
\* applied) to wl (walls resolved).
Stepped(st, i, phys, c, b0, b1, wl, b3) ==
    LET b4 == IF c = NoBud THEN b3 ELSE [b3 EXCEPT !.radius = RDiv(@ * 8, 10)]
        bs1 == [st.bs EXCEPT ![i] = b4]
    IN  [ bs   |-> IF c = NoBud THEN bs1
                   ELSE spawnBubble(bs1, st.nid, b4.x, b4.y, b4.z, b4.radius, c),
          nid  |-> IF c = NoBud THEN st.nid ELSE st.nid + 1,
          grid |-> GridPush(st.grid, CellOf(b4.x), CellOf(b4.y), i),
          trig |-> IF WallSound(wl.b, wl.hit, phys)
                   THEN Append(st.trig, triggerBubbleSound(b3))
                   ELSE st.trig,
          integrated |-> Append(st.integrated, b0.id),
          absorbs |-> st.absorbs,
          contacts |-> st.contacts,
          swallowed |-> st.swallowed,
          collisionPairs |-> st.collisionPairs,
          tests |-> st.tests,
          steps |-> Append(st.steps,
                      [ id |-> b0.id, idx |-> i, before |-> b0, forced |-> b1,
                        walled |-> b3, after |-> b4,
                        child |-> IF c = NoBud THEN 0 ELSE st.nid,
                        childRadius |-> IF c = NoBud THEN 0 ELSE b4.radius ]) ]

\* The body of the loop for the particle at index i, which is not swallowed.
StepOne(st, i, phys, w, c) ==
    Then(st.bs[i], LAMBDA b0 :
      Then(ApplyForces(b0, phys), LAMBDA b1 :
        Then(Moved(b1, phys, w), LAMBDA wl :
          Then(Squash(wl.b, wl.hit, phys), LAMBDA b3 :
            Stepped(st, i, phys, c, b0, b1, wl, b3)))))

\* for (let i = 0; i < bubbles.length; i++): a swallowed particle is spliced
\* out and the index is not advanced; a budded child is appended and is
\* reached by the same loop.
RECURSIVE IntegrateFrom(_, _, _)
IntegrateFrom(st, i, phys) ==
    IF i > Len(st.bs) THEN {st}
    ELSE IF Swallowed(st.bs[i], phys)
    THEN IntegrateFrom([st EXCEPT !.bs = RemoveAt(@, i),
                                  !.swallowed = Append(@, st.bs[i].id)], i, phys)
    ELSE UNION { UNION { IntegrateFrom(StepOne(st, i, phys, w, c), i + 1, phys)
                         : c \in BudChoices(st.bs[i], phys, st.nid) }
                 : w \in WindChoices(phys) }

(***************************************************************************)
(* Collisions (lines 390-417, 432-487)                                     *)
(***************************************************************************)

\* Math.pow(Math.pow(r1, 3) + Math.pow(r2, 3), 1/3): to the tenth of a pixel
\* for radii up to 100 px and to the pixel above that, where the cubes of
\* radii in tenths no longer fit the integers of the model checker.
MergedRadius(r1, r2) ==
    IF r1 <= 100 * FP /\ r2 <= 100 * FP
    THEN Cbrt(r1 * r1 * r1 + r2 * r2 * r2)
    ELSE LET p1 == RDiv(r1, FP)
             p2 == RDiv(r2, FP)
         IN  FP * Cbrt(p1 * p1 * p1 + p2 * p2 * p2)

\* Absorb with the radii added instead of the volumes; C1 fails for it.
AbsorbAddsRadii(r1, r2) ==
    IF r1 > r2 THEN << r1 + r2, 0 >> ELSE << 0, r1 + r2 >>

\* The absorption branch (lines 456-462): the new radii <<r1, r2>>.
Absorb(r1, r2) ==
    IF r1 > r2
    THEN << MergedRadius(r1, r2), 0 >>
    ELSE << 0, MergedRadius(r1, r2) >>

AllNaN(b) == [b EXCEPT !.x = NaN, !.y = NaN, !.z = NaN,
                       !.vx = NaN, !.vy = NaN, !.vz = NaN]

NaNVel(b) == [b EXCEPT !.vx = NaN, !.vy = NaN, !.vz = NaN]

\* The elastic bounce (lines 465-484) for a pair in contact; d is the
\* separation vector, distSq its squared length, rvd the relative velocity
\* projected on d (NaN when a velocity is NaN).
Bounce(b1, b2, d, distSq, rvd) ==
    LET minDist == b1.radius + b2.radius
        dist == Sqrt(distSq)
        sep(k) == RDiv(d[k] * (minDist - dist), 2 * dist)
        moved1 == [b1 EXCEPT !.x = @ - sep(1), !.y = @ - sep(2), !.z = @ - sep(3)]
        moved2 == [b2 EXCEPT !.x = @ + sep(1), !.y = @ + sep(2), !.z = @ + sep(3)]
        \* velAlongNormal * n[k], in tenths of a unit
        vn(k) == RDiv(rvd * d[k] * 10, distSq)
        dv1(k) == RDiv(vn(k) * 195 * b2.radius, 1000 * minDist)
        dv2(k) == RDiv(vn(k) * 195 * b1.radius, 1000 * minDist)
    IN  IF distSq = 0
        THEN \* n = 0/0: every position and velocity component becomes NaN
             [b1 |-> AllNaN(b1), b2 |-> AllNaN(b2), hit |-> TRUE]
        ELSE IF IsNaN(rvd)
        THEN [b1 |-> NaNVel(moved1), b2 |-> NaNVel(moved2), hit |-> TRUE]
        ELSE IF rvd > 0
        THEN [b1 |-> b1, b2 |-> b2, hit |-> FALSE]
        ELSE IF b1.radius = 0
        THEN \* im1 is Infinity and jImp is 0: 0 * Infinity
             [b1 |-> NaNVel(moved1), b2 |-> moved2, hit |-> TRUE]
        ELSE IF b2.radius = 0
        THEN [b1 |-> moved1, b2 |-> NaNVel(moved2), hit |-> TRUE]
        ELSE [b1 |-> [moved1 EXCEPT !.vx = @ + dv1(1), !.vy = @ + dv1(2), !.vz = @ + dv1(3)],
              b2 |-> [moved2 EXCEPT !.vx = @ - dv2(1), !.vy = @ - dv2(2), !.vz = @ - dv2(3)],
              hit |-> TRUE]

\* Math.random() < cannibalism, for a knob value in tenths.
EatChoices(phys) ==
    IF phys.cannibalism = 0 THEN {FALSE}
    ELSE IF phys.cannibalism >= 10 THEN {TRUE}
    ELSE {FALSE, TRUE}

\* Line 439: distSq > (minDist * 3) * (minDist * 3), the early return.
OutOfBand(distSq, minDist) == NGt(distSq, (minDist * 3) * (minDist * 3))

\* Lines 443-451 with the test of dist and without the one of closingSpeed:
\* an event for every pair that gets past the early return; C21 fails for it.
collisionEventAnyDirection(b1, b2, distSq, rvd) ==
    LET minDist == b1.radius + b2.radius
    IN  IF NLt(distSq, (minDist * 3) * (minDist * 3)) /\ ~IsNaN(rvd)
        THEN << [ids |-> <<b1.id, b2.id>>,
                 priority |-> RDiv((-rvd) * 10,
                                   IF Sqrt(distSq) < FP THEN FP ELSE Sqrt(distSq))] >>
        ELSE <<>>

\* Lines 443-451: what the call pushes on collisionPairs. closingSpeed is
\* -rvd; priority = closingSpeed / Math.max(1, dist), in hundredths.
collisionEvent(b1, b2, distSq, rvd) ==
    LET minDist == b1.radius + b2.radius
    IN  IF NLt(distSq, (minDist * 3) * (minDist * 3)) /\ NGt(NSub(0, rvd), 0)
        THEN << [ids |-> <<b1.id, b2.id>>,
                 priority |-> RDiv((-rvd) * 10,
                                   IF Sqrt(distSq) < FP THEN FP ELSE Sqrt(distSq))] >>
        ELSE <<>>

\* checkCollision(b1, b2, pairs, cannibalism): the possible outcomes, each
\* with the particles after the call, the triggers fired and the absorption
\* performed (as <<r1, r2, r1', r2'>>).
checkCollision(b1, b2, phys) ==
    LET d == << NSub(b2.x, b1.x), NSub(b2.y, b1.y), NSub(b2.z, b1.z) >>
        distSq == NAdd(NAdd(NMul(d[1], d[1]), NMul(d[2], d[2])), NMul(d[3], d[3]))
        minDist == b1.radius + b2.radius
        rv == << NSub(b2.vx, b1.vx), NSub(b2.vy, b1.vy), NSub(b2.vz, b1.vz) >>
        rvd == NAdd(NAdd(NMul(rv[1], d[1]), NMul(rv[2], d[2])), NMul(rv[3], d[3]))
        events == collisionEvent(b1, b2, distSq, rvd)
        same == [b1 |-> b1, b2 |-> b2, trig |-> <<>>, absorbs |-> <<>>,
                 contacts |-> <<>>, events |-> events]
    IN  IF OutOfBand(distSq, minDist) \/ ~NLt(distSq, minDist * minDist)
        THEN {same}
        ELSE { IF eat
               THEN LET rr == Absorb(b1.radius, b2.radius)
                    IN  [b1 |-> [b1 EXCEPT !.radius = rr[1]],
                         b2 |-> [b2 EXCEPT !.radius = rr[2]],
                         trig |-> << triggerBubbleSound([b1 EXCEPT !.radius = rr[1]]) >>,
                         absorbs |-> << [ids |-> <<b1.id, b2.id>>,
                                         before |-> <<b1.radius, b2.radius>>,
                                         after |-> rr, trig |-> b1.id] >>,
                         events |-> events,
                         contacts |-> << [eat |-> TRUE, b1 |-> b1, b2 |-> b2,
                                          a1 |-> [b1 EXCEPT !.radius = rr[1]],
                                          a2 |-> [b2 EXCEPT !.radius = rr[2]],
                                          trig |-> <<b1.id>>] >>]
               ELSE LET bo == Bounce(b1, b2, d, distSq, rvd)
                    IN  [b1 |-> bo.b1, b2 |-> bo.b2,
                         trig |-> IF bo.hit
                                  THEN << triggerBubbleSound(bo.b1) >>
                                  ELSE <<>>,
                         absorbs |-> <<>>,
                         events |-> events,
                         contacts |-> << [eat |-> FALSE, b1 |-> b1, b2 |-> b2,
                                          a1 |-> bo.b1, a2 |-> bo.b2,
                                          trig |-> IF bo.hit THEN <<b1.id>>
                                                   ELSE <<>>] >>]
               : eat \in EatChoices(phys) }

\* The index pairs inside one cell: i < j in the cell's list.
InnerPairs(idx) ==
    LET n == Len(idx)
        row(i) == [j \in 1..(n - i) |-> <<idx[i], idx[i + j]>>]
        F[i \in 0..n] == IF i = 0 THEN <<>> ELSE F[i - 1] \o row(i)
    IN  F[n]

\* Every index of one cell against every index of another.
CrossPairs(idx, nidx) ==
    LET n == Len(idx)
        row(i) == [j \in 1..Len(nidx) |-> <<idx[i], nidx[j]>>]
        F[i \in 0..n] == IF i = 0 THEN <<>> ELSE F[i - 1] \o row(i)
    IN  F[n]

neighborOffsets == << <<1, 0>>, <<1, 1>>, <<0, 1>>, <<-1, 1>> >>

\* grid[`${gx+ox},${gy+oy}`], or the empty list
CellAt(grid, gx, gy) ==
    IF \E k \in 1..Len(grid) : grid[k].gx = gx /\ grid[k].gy = gy
    THEN grid[CHOOSE k \in 1..Len(grid) : grid[k].gx = gx /\ grid[k].gy = gy].idx
    ELSE <<>>

\* The calls of checkCollision one cell makes.
CellPairs(grid, k) ==
    LET c == grid[k]
        nb(o) == CrossPairs(c.idx, CellAt(grid, NAdd(c.gx, neighborOffsets[o][1]),
                                                NAdd(c.gy, neighborOffsets[o][2])))
    IN  InnerPairs(c.idx) \o nb(1) \o nb(2) \o nb(3) \o nb(4)

\* for (const key in grid): all calls of checkCollision of a tick, in order.
GridPairs(grid) ==
    LET F[k \in 0..Len(grid)] == IF k = 0 THEN <<>> ELSE F[k - 1] \o CellPairs(grid, k)
    IN  F[Len(grid)]

\* The calls made one after the other on the shared particle array.
RECURSIVE CollideFrom(_, _, _, _)
CollideFrom(st, pairs, k, phys) ==
    IF k > Len(pairs) THEN {st}
    ELSE LET i == pairs[k][1]
             j == pairs[k][2]
         IN  UNION { CollideFrom(
                        [st EXCEPT !.bs = IF i = j THEN @
                                         ELSE [@ EXCEPT ![i] = o.b1, ![j] = o.b2],
                                   !.trig = @ \o o.trig,
                                   !.absorbs = @ \o o.absorbs,
                                   !.contacts = @ \o o.contacts,
                                   !.collisionPairs = @ \o o.events,
                                   !.tests = Append(@, [b1 |-> st.bs[i],
                                                        b2 |-> st.bs[j],
                                                        events |-> o.events])],
                        pairs, k + 1, phys)
                     : o \in checkCollision(st.bs[i], st.bs[j], phys) }

\* bubbles.sort((a, b) => b.z - a.z): stable, descending z; a NaN difference
\* counts as 0.
RECURSIVE InsertZ(_, _)
InsertZ(s, e) ==
    IF s = <<>> THEN <<e>>
    ELSE LET last == s[Len(s)]
         IN  IF NGt(e.z, last.z)
             THEN Append(InsertZ(SubSeq(s, 1, Len(s) - 1), e), last)
             ELSE Append(s, e)

SortByZ(bs) ==
    LET F[k \in 0..Len(bs)] == IF k = 0 THEN <<>> ELSE InsertZ(F[k - 1], bs[k])
    IN  F[Len(bs)]

\* collisionPairs.sort((a, b) => b.priority - a.priority): stable,
\* descending priority.
RECURSIVE InsertPriority(_, _)
InsertPriority(s, e) ==
    IF s = <<>> THEN <<e>>
    ELSE LET last == s[Len(s)]
         IN  IF e.priority > last.priority
             THEN Append(InsertPriority(SubSeq(s, 1, Len(s) - 1), e), last)
             ELSE Append(s, e)

\* Lines 426-427: the three events handed to drawHUD.
topCollisions(pairs) ==
    LET F[k \in 0..Len(pairs)] ==
            IF k = 0 THEN <<>> ELSE InsertPriority(F[k - 1], pairs[k])
        sorted == F[Len(pairs)]
    IN  SubSeq(sorted, 1, IF Len(sorted) < 3 THEN Len(sorted) ELSE 3)

\* The playing branch of animate: every outcome of one tick.
TickOutcomes(bs, phys, nid) ==
    LET start == [bs |-> bs, nid |-> nid, grid |-> <<>>, trig |-> <<>>,
                  integrated |-> <<>>, absorbs |-> <<>>, contacts |-> <<>>,
                  swallowed |-> <<>>, steps |-> <<>>, collisionPairs |-> <<>>,
                  tests |-> <<>>]
    IN  UNION { { [ bs |-> SortByZ(fin.bs), nid |-> fin.nid, trig |-> fin.trig,
                    collisionPairs |-> fin.collisionPairs, tests |-> fin.tests,
                    hud |-> topCollisions(fin.collisionPairs),
                    integrated |-> fin.integrated, absorbs |-> fin.absorbs,
                    contacts |-> fin.contacts, swallowed |-> fin.swallowed,
                    steps |-> fin.steps, calls |-> GridPairs(mid.grid),
                    pre |-> mid.bs, grid |-> mid.grid ]
                  : fin \in CollideFrom(mid, GridPairs(mid.grid), 1, phys) }
                : mid \in IntegrateFrom(start, 1, phys) }

(***************************************************************************)
(* Operations                                                              *)
(***************************************************************************)

NoFrame == [kind |-> "none", seen |-> {}, integrated |-> <<>>, trig |-> <<>>,
            absorbs |-> <<>>, pre |-> <<>>, grid |-> <<>>, drawn |-> <<>>,
            culled |-> {}, start |-> <<>>, steps |-> <<>>, swallowed |-> <<>>,
            contacts |-> <<>>, calls |-> <<>>, collisionPairs |-> <<>>,
            tests |-> <<>>, hud |-> <<>>, cfg |-> <<>>]

(***************************************************************************)
(* The audio engine (services/audioEngine: class AudioEngine)              *)
(*                                                                         *)
(* audio.ctx is "none" while this.ctx is null, else the AudioContext's     *)
(* state.  A voice is the filter / panner / gain chain one triggerSound    *)
(* call builds and connects to the shared dry and reverb inputs.           *)
(***************************************************************************)

\* Calls of triggerSound in one run.
MaxCalls == 2

\* The engine after construction: no context, SYNTH, no sample buffer.
AudioOff ==
    [ctx |-> "none", soundType |-> "SYNTH", customBuffer |-> FALSE,
     voices |-> <<>>, calls |-> 0]

\* init(): creates the context once; a new AudioContext starts "running" or,
\* under the browser's autoplay policy, "suspended".
init(a, state) == IF a.ctx # "none" THEN a ELSE [a EXCEPT !.ctx = state]

resume(a) == IF a.ctx = "suspended" THEN [a EXCEPT !.ctx = "running"] ELSE a

suspend(a) == IF a.ctx = "running" THEN [a EXCEPT !.ctx = "suspended"] ELSE a

\* loadSample(file): decoded is FALSE when decodeAudioData rejects.
loadSample(a, decoded) ==
    IF a.ctx = "none" \/ ~decoded THEN a
    ELSE [a EXCEPT !.customBuffer = TRUE, !.soundType = "SAMPLE"]

\* triggerSound with only the null test of the guard; C13 fails for it.
triggerSoundAnyState(a, isReverse) ==
    IF a.ctx = "none" THEN a
    ELSE [a EXCEPT !.voices = Append(@,
             [mode |-> "SYNTH", connected |-> TRUE, timer |-> TRUE,
              duration |-> IF isReverse THEN 25 ELSE 20])]

\* triggerSound(...): the per-voice chain is connected to dryGain and
\* reverbNode; only the synth branch schedules the timeout that disconnects
\* it (lines 268-272).  duration is in tenths of a second.
triggerSound(a, isReverse) ==
    IF a.ctx # "running" THEN a
    ELSE IF a.soundType = "SAMPLE" /\ a.customBuffer
    THEN [a EXCEPT !.voices = Append(@,
             [mode |-> "SAMPLE", connected |-> TRUE, timer |-> FALSE,
              duration |-> IF isReverse THEN 25 ELSE 20])]
    ELSE [a EXCEPT !.voices = Append(@,
             [mode |-> "SYNTH", connected |-> TRUE, timer |-> TRUE,
              duration |-> IF isReverse THEN 25 ELSE 20])]

(***************************************************************************)
(* The transport of App.tsx and the frame loop of the Visualizer           *)
(***************************************************************************)

\* lifecycle before App has called the engine: last is the last of resume /
\* suspend issued, inits counts the init() calls that created a context,
\* resumed says that resume() has been issued, early that a resume() was
\* issued while no context existed.
NoCalls == [last |-> "none", inits |-> 0, resumed |-> FALSE, early |-> FALSE]

\* lifecycle after the call of method m on engine a.
Issued(l, m, a) ==
    IF m = "init"
    THEN [l EXCEPT !.inits = IF a.ctx = "none" THEN @ + 1 ELSE @]
    ELSE IF m = "resume"
    THEN [l EXCEPT !.last = m, !.resumed = TRUE,
                   !.early = @ \/ a.ctx = "none"]
    ELSE [l EXCEPT !.last = m]

\* Engine and lifecycle once the transport has been started for the first
\* time (the states SpecLoop and SpecDeform start from).
StartedAudio == resume(init(AudioOff, "running"))

StartedCalls == [last |-> "resume", inits |-> 1, resumed |-> TRUE, early |-> FALSE]

\* The values a render of the Visualizer closes over: its props.
Config(p, phys, freq) == [isPlaying |-> p, physics |-> phys, baseFrequency |-> freq]

\* requestRef.current = requestAnimationFrame(animate): the browser appends
\* the callback, a closure over the props of the render that created it, to
\* its list; requestRef is the place of that request in the list.
requestAnimationFrame(l, cfg) ==
    [pending |-> Append(l.pending, cfg), requestRef |-> Len(l.pending) + 1]

\* if (requestRef.current) cancelAnimationFrame(requestRef.current)
cancelAnimationFrame(l) ==
    IF l.requestRef \in 1..Len(l.pending)
    THEN [pending |-> RemoveAt(l.pending, l.requestRef), requestRef |-> 0]
    ELSE l

\* An effect that does not cancel the request of the render before; C23
\* fails for it.
RerenderKeepsRequest(l, cfg) == requestAnimationFrame(l, cfg)

\* A render with changed dependencies (lines 605-624): the cleanup of the
\* effect of the render before, then the effect of this one.
Rerender(l, cfg) == requestAnimationFrame(cancelAnimationFrame(l), cfg)

\* The browser takes the first request off its list and calls it; animate
\* ends with requestRef.current = requestAnimationFrame(animate), the same
\* closure again (lines 264 and 429).
Fired(l) ==
    requestAnimationFrame([l EXCEPT !.pending = Tail(@)], Head(l.pending))

\* The loop after the Visualizer has mounted with props cfg.
Mounted(cfg) == requestAnimationFrame([pending |-> <<>>, requestRef |-> 0], cfg)

\* The Knob after mounting at value v (thousandths of its range, min = 0 and
\* max = 1): no drag, no cleanup, no listener of it on window.  listeners
\* holds the numbers of the pointer-downs whose move / up / cancel listeners
\* are on window, cleanupRef the number of the pointer-down whose listeners
\* cleanupRef.current removes (0 for null), down the pointers that are
\* pressed, regs the pointer-downs so far.
KnobIdle(v) ==
    [mounted |-> TRUE, value |-> v, isDragging |-> FALSE, dragRef |-> <<>>,
     cleanupRef |-> 0, listeners |-> {}, down |-> {}, regs |-> 0]

Init ==
    /\ qreq = QIdle
    /\ qres = NoResult
    /\ bubbles = <<>>
    /\ isDrawing = FALSE
    /\ lastSpawnPos = NoPos
    /\ isPlaying = FALSE
    /\ physics = DefaultPhysics
    /\ nextId = 1
    /\ ticks = 0
    /\ frame = NoFrame
    /\ resetMark = 1
    /\ audio = AudioOff
    /\ hasInteracted = FALSE
    /\ lifecycle = NoCalls
    /\ baseFrequency = 440
    /\ loop = Mounted(Config(isPlaying, physics, baseFrequency))
    /\ knob = KnobIdle(500)

\* handleMouseDown: spawnBubble(x, y, 50)
MouseDown ==
    \E pt \in MousePts, d \in SpawnDraws :
        /\ nextId <= MaxIds
        /\ isDrawing' = TRUE
        /\ lastSpawnPos' = pt
        /\ bubbles' = spawnBubble(bubbles, nextId, pt[1] * FP, pt[2] * FP, 50 * FP, 0, d)
        /\ nextId' = nextId + 1
        /\ UNCHANGED <<knob, appvars, loop, audio, qreq, qres, isPlaying, physics, ticks, resetMark>>
        /\ frame' = NoFrame

\* handleMouseMove: a bubble every time the pointer is more than 50 px from
\* the last spawn position.
MouseMove ==
    \E pt \in MousePts, d \in SpawnDraws, mz \in MoveDepths :
        /\ isDrawing
        /\ lastSpawnPos # NoPos
        /\ nextId <= MaxIds
        /\ LET dx == pt[1] - lastSpawnPos[1]
               dy == pt[2] - lastSpawnPos[2]
           IN  dx * dx + dy * dy > 50 * 50
        /\ bubbles' = spawnBubble(bubbles, nextId, pt[1] * FP, pt[2] * FP, mz, 0, d)
        /\ lastSpawnPos' = pt
        /\ nextId' = nextId + 1
        /\ UNCHANGED <<knob, appvars, loop, audio, qreq, qres, isDrawing, isPlaying, physics, ticks, resetMark>>
        /\ frame' = NoFrame

\* handleMouseUp (also onMouseLeave)
MouseUp ==
    /\ isDrawing' = FALSE
    /\ lastSpawnPos' = NoPos
    /\ UNCHANGED <<knob, appvars, loop, audio, qreq, qres, bubbles, isPlaying, physics, nextId, ticks, resetMark>>
    /\ frame' = NoFrame

\* A frame callback that runs the simulation tick although paused; C22 fails
\* for it.
AnimatePausedTicks ==
    /\ loop.pending # <<>>
    /\ ~Head(loop.pending).isPlaying
    /\ \E o \in TickOutcomes(bubbles, Head(loop.pending).physics, nextId) :
        /\ bubbles' = o.bs
        /\ nextId' = o.nid
        /\ frame' = [NoFrame EXCEPT !.kind = "paused", !.seen = Ids(o.bs),
                                    !.drawn = o.bs, !.trig = o.trig,
                                    !.cfg = Head(loop.pending)]
    /\ loop' = Fired(loop)
    /\ UNCHANGED <<knob, appvars, audio, qreq, qres, isDrawing, lastSpawnPos, isPlaying, physics,
                   ticks, resetMark>>

\* The frame callback while paused (lines 260-265): draw a sorted copy.
AnimatePaused ==
    /\ loop.pending # <<>>
    /\ ~Head(loop.pending).isPlaying
    /\ frame' = [NoFrame EXCEPT !.kind = "paused", !.seen = Ids(bubbles),
                                !.drawn = SortByZ(bubbles),
                                !.cfg = Head(loop.pending)]
    /\ loop' = Fired(loop)
    /\ UNCHANGED <<knob, appvars, audio, qreq, qres, bubbles, isDrawing, lastSpawnPos, isPlaying, physics,
                   nextId, ticks, resetMark>>

\* The playing branch of the frame callback (lines 267-429): one simulation
\* tick, with the props of the render the callback was created in.
PlayFrame ==
    /\ loop.pending # <<>>
    /\ Head(loop.pending).isPlaying
    /\ \E o \in TickOutcomes(bubbles, Head(loop.pending).physics, nextId) :
        /\ bubbles' = o.bs
        /\ nextId' = o.nid
        /\ frame' = [kind |-> "tick",
                     seen |-> { o.integrated[i] : i \in 1..Len(o.integrated) } \cup Ids(o.bs),
                     integrated |-> o.integrated, trig |-> o.trig,
                     absorbs |-> o.absorbs, pre |-> o.pre, grid |-> o.grid,
                     drawn |-> o.bs, culled |-> {}, start |-> bubbles,
                     steps |-> o.steps, swallowed |-> o.swallowed,
                     contacts |-> o.contacts, calls |-> o.calls,
                     collisionPairs |-> o.collisionPairs, tests |-> o.tests,
                     hud |-> o.hud, cfg |-> Head(loop.pending)]
    /\ loop' = Fired(loop)
    /\ UNCHANGED <<knob, appvars, audio, qreq, qres, isDrawing, lastSpawnPos, isPlaying, physics, resetMark>>

\* The frame callback while playing, while fewer than limit ticks have run.
Tick(limit) ==
    /\ ticks < limit
    /\ PlayFrame
    /\ ticks' = ticks + 1

AnimateTick == Tick(MaxTicks)

\* A filter that keeps every particle; C10 fails for it.
CullKeepsAll(bs) == SelectSeq(bs, LAMBDA b : b.radius >= 0)

\* bubblesRef.current.filter(b => b.radius > 0)
Cull(bs) == SelectSeq(bs, LAMBDA b : b.radius > 0)

\* The 100 ms interval (lines 489-496).
Cleanup ==
    /\ \E i \in 1..Len(bubbles) : bubbles[i].radius = 0
    /\ bubbles' = Cull(bubbles)
    /\ frame' = [NoFrame EXCEPT !.kind = "cull",
                                !.culled = Ids(bubbles) \ Ids(Cull(bubbles))]
    /\ UNCHANGED <<knob, appvars, loop, audio, qreq, qres, isDrawing, lastSpawnPos, isPlaying, physics, nextId,
                   ticks, resetMark>>

\* A reset that leaves the array as it is; C9 fails for it.
resetKeepsArray == bubbles

\* VisualizerHandle.reset
reset == <<>>

\* A handleStart that takes the new value of isPlaying for the old one when
\* it chooses between resume() and suspend(); C29 fails for it.
handleStartStale ==
    /\ \E state \in {"suspended", "running"} :
          LET a1 == IF hasInteracted THEN audio ELSE init(audio, state)
              l1 == IF hasInteracted THEN lifecycle ELSE Issued(lifecycle, "init", audio)
          IN  /\ audio' = IF isPlaying THEN resume(a1) ELSE suspend(a1)
              /\ lifecycle' = Issued(l1, IF isPlaying THEN "resume" ELSE "suspend", a1)
    /\ hasInteracted' = TRUE
    /\ isPlaying' = ~isPlaying
    /\ loop' = Rerender(loop, Config(~isPlaying, physics, baseFrequency))
    /\ UNCHANGED <<knob, baseFrequency, qreq, qres, bubbles, isDrawing, lastSpawnPos,
                   physics, nextId, ticks, resetMark>>
    /\ frame' = NoFrame

\* App.handleStart (lines 80-88): on the first interaction init(); toggle
\* isPlaying; resume() when it was paused, suspend() when it was playing.
\* state is the state the new AudioContext is created in.  The state change
\* re-renders the Visualizer.
handleStart ==
    /\ \E state \in {"suspended", "running"} :
          LET a1 == IF hasInteracted THEN audio ELSE init(audio, state)
              l1 == IF hasInteracted THEN lifecycle ELSE Issued(lifecycle, "init", audio)
          IN  /\ audio' = IF ~isPlaying THEN resume(a1) ELSE suspend(a1)
              /\ lifecycle' = Issued(l1, IF ~isPlaying THEN "resume" ELSE "suspend", a1)
    /\ hasInteracted' = TRUE
    /\ isPlaying' = ~isPlaying
    /\ loop' = Rerender(loop, Config(~isPlaying, physics, baseFrequency))
    /\ UNCHANGED <<knob, baseFrequency, qreq, qres, bubbles, isDrawing, lastSpawnPos,
                   physics, nextId, ticks, resetMark>>
    /\ frame' = NoFrame

\* App.handleStop (lines 90-97): pause, suspend() and reset the visualizer.
\* setIsPlaying(false) re-renders only when isPlaying was true.
handleStop ==
    /\ isPlaying' = FALSE
    /\ audio' = suspend(audio)
    /\ lifecycle' = Issued(lifecycle, "suspend", audio)
    /\ bubbles' = reset
    /\ resetMark' = nextId
    /\ loop' = IF isPlaying THEN Rerender(loop, Config(FALSE, physics, baseFrequency))
                ELSE loop
    /\ UNCHANGED <<knob, hasInteracted, baseFrequency, qreq, qres, isDrawing,
                   lastSpawnPos, physics, nextId, ticks>>
    /\ frame' = NoFrame

\* A knob is turned: setPhysicsKnobs.  App renders again and hands the
\* Visualizer a new physics object.
SetKnobs ==
    \E p \in PhysicsPresets :
        /\ physics' = p
        /\ loop' = Rerender(loop, Config(isPlaying, p, baseFrequency))
        /\ UNCHANGED <<knob, appvars, audio, qreq, qres, bubbles, isDrawing, lastSpawnPos, isPlaying, nextId,
                       ticks, resetMark>>
        /\ frame' = NoFrame

Next ==
    \/ MouseDown
    \/ MouseMove
    \/ MouseUp
    \/ AnimatePaused
    \/ AnimateTick
    \/ Cleanup
    \/ handleStart
    \/ handleStop
    \/ SetKnobs

Spec == Init /\ [][Next]_vars

\* The cull timer keeps firing.
FairSpec == Spec /\ WF_vars(Cleanup)

\* The base-frequency values the FREQ control is set to, in Hz.
BaseFrequencies == {220, 440}

\* setAudioSettings with another baseFrequency: App renders again, and the
\* effect of the Visualizer has audioSettings.baseFrequency among its
\* dependencies.
SetBaseFrequency ==
    \E f \in BaseFrequencies :
        /\ f # baseFrequency
        /\ baseFrequency' = f
        /\ loop' = Rerender(loop, Config(isPlaying, physics, f))
        /\ UNCHANGED <<knob, hasInteracted, lifecycle, audio, qreq, qres, bubbles,
                       isDrawing, lastSpawnPos, isPlaying, physics, nextId, ticks,
                       resetMark>>
        /\ frame' = NoFrame

NextRender ==
    \/ Next
    \/ SetBaseFrequency

\* The instrument with every cause of a re-render of the Visualizer.
SpecRender == Init /\ [][NextRender]_vars

(***************************************************************************)
(* The pointer-driven Knob                                                 *)
(***************************************************************************)

\* Pointer-downs on the knob in one run.
MaxDowns == 3

\* Pointer ids, and the clientY values (px) of pointer events.
Pointers == {1, 2}

KnobYs == {0, 50, 100}

\* set01(t01): clamp to 0..1 (steps is not set, snap01 returns t) and
\* onChange; the parent stores the value.
set01(k, t01) ==
    [k EXCEPT !.value = IF t01 < 0 THEN 0 ELSE IF t01 > 1000 THEN 1000 ELSE t01]

\* endDrag (lines 85-90).
endDrag(k) ==
    [k EXCEPT !.listeners = @ \ {k.cleanupRef}, !.cleanupRef = 0,
              !.isDragging = FALSE, !.dragRef = <<>>]

\* onPointerDown (lines 94-140) for pointer p at clientY y.  isDouble is
\* now - lastTapAt < 320; lastTapAt is only known while dragRef.current is
\* set.  The new listeners go on window and cleanupRef.current is replaced;
\* nothing removes the listeners of a drag that is still open.
onPointerDown(k, p, y, isDouble) ==
    LET k1 == [k EXCEPT !.dragRef = << [id |-> p, startY |-> y, start01 |-> k.value] >>]
        k2 == IF isDouble THEN set01(k1, 0) ELSE k1
    IN  [k2 EXCEPT !.isDragging = TRUE,
                   !.regs = @ + 1,
                   !.listeners = @ \cup {k.regs + 1},
                   !.cleanupRef = k.regs + 1,
                   !.down = @ \cup {p}]

\* The move listeners (lines 113-120) on a pointermove of pointer p: every
\* registered one reads dragRef.current and sets the same value.
move(k, p, y, shiftKey) ==
    IF k.listeners = {} \/ k.dragRef = <<>> THEN k
    ELSE IF k.dragRef[1].id # p THEN k
    ELSE LET dy == k.dragRef[1].startY - y
         IN  set01(k, k.dragRef[1].start01
                      + (IF shiftKey THEN (dy * 3) \div 2 ELSE dy * 4))

\* The up listeners (lines 122-127) on a pointerup or pointercancel of
\* pointer p: the first that finds its pointer in dragRef.current ends the
\* drag, the others find dragRef.current null.
up(k, p) ==
    IF k.listeners = {} \/ k.dragRef = <<>> THEN k
    ELSE IF k.dragRef[1].id # p THEN k
    ELSE endDrag(k)

KnobPointerDown ==
    \E p \in Pointers, y \in KnobYs, isDouble \in BOOLEAN :
        /\ knob.mounted
        /\ p \notin knob.down
        /\ knob.regs < MaxDowns
        /\ isDouble => knob.dragRef # <<>>
        /\ knob' = onPointerDown(knob, p, y, isDouble)
        /\ UNCHANGED <<qvars, simvars, audio, appvars, loop>>

KnobPointerMove ==
    \E p \in Pointers, y \in KnobYs, shiftKey \in BOOLEAN :
        /\ knob' = move(knob, p, y, shiftKey)
        /\ UNCHANGED <<qvars, simvars, audio, appvars, loop>>

KnobPointerUp ==
    \E p \in knob.down :
        /\ knob' = [up(knob, p) EXCEPT !.down = @ \ {p}]
        /\ UNCHANGED <<qvars, simvars, audio, appvars, loop>>

\* The browser cancels a pointer (the touch turns into a scroll, the window
\* loses the pointer): the same listener as for pointerup.
KnobPointerCancel ==
    \E p \in knob.down :
        /\ knob' = [up(knob, p) EXCEPT !.down = @ \ {p}]
        /\ UNCHANGED <<qvars, simvars, audio, appvars, loop>>

\* The cleanup of the effect of line 92 when the Knob unmounts.
KnobUnmount ==
    /\ knob.mounted
    /\ knob' = [endDrag(knob) EXCEPT !.mounted = FALSE]
    /\ UNCHANGED <<qvars, simvars, audio, appvars, loop>>

NextKnob ==
    \/ KnobPointerDown
    \/ KnobPointerMove
    \/ KnobPointerUp
    \/ KnobPointerCancel
    \/ KnobUnmount

SpecKnob == Init /\ [][NextKnob]_vars

(***************************************************************************)
(* The quantizer called on one request                                     *)
(***************************************************************************)

InitQ ==
    /\ qreq \in [ input : QInputs, cfg : QConfigs ]
    /\ qres = NoResult
    /\ bubbles = <<>>
    /\ isDrawing = FALSE
    /\ lastSpawnPos = NoPos
    /\ isPlaying = FALSE
    /\ physics = DefaultPhysics
    /\ nextId = 1
    /\ ticks = 0
    /\ frame = NoFrame
    /\ resetMark = 1
    /\ audio = AudioOff
    /\ hasInteracted = FALSE
    /\ lifecycle = NoCalls
    /\ baseFrequency = 440
    /\ loop = Mounted(Config(isPlaying, physics, baseFrequency))
    /\ knob = KnobIdle(500)

SpecQ == InitQ /\ [][NextQ]_vars

(***************************************************************************)
(* The frame loop taken up in the middle of a run                          *)
(***************************************************************************)

\* Particles in the arrays the loop is taken up from.
LoopLen == 2

\* The arrays 1..LoopLen mouse-downs leave behind (spawnBubble(x, y, 50)).
SpawnedArrays ==
    UNION { { [i \in 1..n |->
                 spawnBubble(<<>>, i, f[i][1][1] * FP, f[i][1][2] * FP, 50 * FP,
                             0, f[i][2])[1]]
              : f \in [1..n -> MousePts \X SpawnDraws] }
            : n \in 1..LoopLen }

\* A particle the black hole has drawn to the centre of the room, and one
\* 100 * k px from the left wall.
CentreParticle(id) ==
    [id |-> id, x |-> WU \div 2, y |-> HU \div 2, z |-> DU \div 2,
     vx |-> 3, vy |-> -2, vz |-> 1, radius |-> 30 * FP,
     scaleX |-> SU, scaleY |-> SU]

FarParticle(id, k) ==
    [id |-> id, x |-> k * 100 * FP, y |-> 100 * FP, z |-> 50 * FP,
     vx |-> 3, vy |-> -2, vz |-> 1, radius |-> 30 * FP,
     scaleX |-> SU, scaleY |-> SU]

\* Arrays of three particles, any of them at the centre.
CentreStarts ==
    { [bs |-> [i \in 1..3 |-> IF c[i] THEN CentreParticle(i) ELSE FarParticle(i, i)],
       nid |-> 4]
      : c \in [1..3 -> BOOLEAN] }

\* Four particles in a row, 40 px apart, with sideways velocities v.
ClusterParticle(id, v) ==
    [id |-> id, x |-> (100 + 40 * id) * FP, y |-> 100 * FP, z |-> 50 * FP,
     vx |-> v, vy |-> 0, vz |-> 0, radius |-> 30 * FP,
     scaleX |-> SU, scaleY |-> SU]

ClusterVelocities == { <<9, 3, -3, -9>>, <<9, -9, 9, -9>>, <<-9, -3, 3, 9>> }

ClusterStarts ==
    { [bs |-> [i \in 1..4 |-> ClusterParticle(i, v[i])], nid |-> 5]
      : v \in ClusterVelocities }

\* Radii a particle has after it has absorbed many others (the cube root of
\* the sum of their cubed radii, lines 456-461).
GrownRadii == {150 * FP, 180 * FP}

\* A grown particle in the middle of the room and a freshly spawned one
\* inside it.
GrownStarts ==
    { [bs |-> << [CentreParticle(1) EXCEPT !.radius = r, !.z = 50 * FP],
                 spawnBubble(<<>>, 2, (WU \div 2) + 100, HU \div 2, 50 * FP, 0, d)[1] >>,
       nid |-> 3]
      : r \in GrownRadii, d \in SpawnDraws }

\* A particle at depth z (px) with depth velocity vz, 100 px from the left
\* and the top wall.
DepthParticle(id, z, vz) ==
    [FarParticle(id, 1) EXCEPT !.z = z * FP, !.vx = 0, !.vy = 0, !.vz = vz]

\* A particle the near wall (z = 0) or the far wall (z = DEPTH) has just
\* stopped, and one 30 px further into the room that moves towards it.
DepthStarts ==
    { [bs |-> << DepthParticle(1, 0, 3), DepthParticle(2, 30, -3) >>, nid |-> 3],
      [bs |-> << DepthParticle(1, DEPTH - 30, 3), DepthParticle(2, DEPTH, -3) >>,
       nid |-> 3] }

\* Freshly spawned arrays, and arrays later in a run.
LoopStarts ==
    { [bs |-> arr, nid |-> Len(arr) + 1] : arr \in SpawnedArrays }
        \cup CentreStarts \cup ClusterStarts \cup GrownStarts \cup DepthStarts

InitLoop ==
    /\ qreq = QIdle
    /\ qres = NoResult
    /\ \E s \in LoopStarts :
          /\ bubbles = s.bs
          /\ nextId = s.nid
    /\ physics \in PhysicsPresets
    /\ isDrawing = FALSE
    /\ lastSpawnPos = NoPos
    /\ isPlaying = TRUE
    /\ ticks = 0
    /\ frame = NoFrame
    /\ resetMark = 1
    /\ audio = StartedAudio
    /\ hasInteracted = TRUE
    /\ lifecycle = StartedCalls
    /\ baseFrequency = 440
    /\ loop = Mounted(Config(isPlaying, physics, baseFrequency))
    /\ knob = KnobIdle(500)

\* The frame callback, for one tick more than in Spec.
LoopTick == Tick(MaxTicks + 1)

NextLoop == LoopTick

SpecLoop == InitLoop /\ [][NextLoop]_vars

EngineInit ==
    /\ \E state \in {"suspended", "running"} : audio' = init(audio, state)
    /\ UNCHANGED <<qvars, simvars, appvars, loop, knob>>

EngineResume ==
    /\ audio' = resume(audio)
    /\ UNCHANGED <<qvars, simvars, appvars, loop, knob>>

EngineSuspend ==
    /\ audio' = suspend(audio)
    /\ UNCHANGED <<qvars, simvars, appvars, loop, knob>>

LoadSample ==
    /\ \E decoded \in BOOLEAN : audio' = loadSample(audio, decoded)
    /\ UNCHANGED <<qvars, simvars, appvars, loop, knob>>

TriggerSound ==
    /\ audio.calls < MaxCalls
    /\ \E isReverse \in BOOLEAN :
          audio' = [triggerSound(audio, isReverse) EXCEPT !.calls = @ + 1]
    /\ UNCHANGED <<qvars, simvars, appvars, loop, knob>>

\* The setTimeout callback of a synth voice: disconnect its three nodes.
VoiceTimeout ==
    /\ \E i \in 1..Len(audio.voices) :
          /\ audio.voices[i].timer
          /\ audio' = [audio EXCEPT !.voices[i].connected = FALSE,
                                    !.voices[i].timer = FALSE]
    /\ UNCHANGED <<qvars, simvars, appvars, loop, knob>>

NextA ==
    \/ EngineInit
    \/ EngineResume
    \/ EngineSuspend
    \/ LoadSample
    \/ TriggerSound
    \/ VoiceTimeout

SpecA == Init /\ [][NextA]_vars

\* Timers set with setTimeout fire.
FairA == SpecA /\ WF_vars(VoiceTimeout)



(***************************************************************************)
(* The frame loop left running on one particle                             *)
(***************************************************************************)

\* Deformations the particle starts from: neutral, stretched, squashed.
DeformScales == { <<SU, SU>>, <<2 * SU, SU \div 2>>, <<SU \div 2, 2 * SU>> }

\* Spawn draws without sideways velocity: the particle moves up or down.
DeformDraws ==
    { [r |-> 45 * FP, v |-> <<0, 3, 0>>,  z |-> 250 * FP],
      [r |-> 30 * FP, v |-> <<0, -3, 0>>, z |-> 470 * FP] }

\* Knob settings with blackHole = 0: the initial ones, and gravity turned up.
DeformPhysics ==
    { DefaultPhysics, [DefaultPhysics EXCEPT !.gravity = 10, !.tempo = 10] }

InitDeform ==
    /\ qreq = QIdle
    /\ qres = NoResult
    /\ \E d \in DeformDraws, sc \in DeformScales :
          bubbles = << [spawnBubble(<<>>, 1, 250 * FP, 100 * FP, 50 * FP, 0, d)[1]
                          EXCEPT !.scaleX = sc[1], !.scaleY = sc[2]] >>
    /\ nextId = 2
    /\ physics \in DeformPhysics
    /\ isDrawing = FALSE
    /\ lastSpawnPos = NoPos
    /\ isPlaying = TRUE
    /\ ticks = 0
    /\ frame = NoFrame
    /\ resetMark = 1
    /\ audio = StartedAudio
    /\ hasInteracted = TRUE
    /\ lifecycle = StartedCalls
    /\ baseFrequency = 440
    /\ loop = Mounted(Config(isPlaying, physics, baseFrequency))
    /\ knob = KnobIdle(500)

\* The frame callback, any number of times.
DeformFrame ==
    /\ PlayFrame
    /\ UNCHANGED <<ticks, nextId>>

NextDeform == DeformFrame

SpecDeform == InitDeform /\ [][NextDeform]_vars

\* requestAnimationFrame keeps calling animate.
FairDeform == SpecDeform /\ WF_vars(DeformFrame)

(***************************************************************************)
(* Claims                                                                  *)
(***************************************************************************)

Cube(r) == r * r * r

\* C1: every absorption performed by checkCollision conserves volume: of the
\* two radii afterwards exactly one is 0, and the other, R, is the cube root
\* of r1^3 + r2^3 to within one fixed-point unit.
C1_VolumeConserved ==
    \A k \in 1..Len(frame.absorbs) :
        LET a == frame.absorbs[k]
            sum == Cube(a.before[1]) + Cube(a.before[2])
            R == IF a.after[1] = 0 THEN a.after[2] ELSE a.after[1]
        IN  /\ (a.after[1] = 0) # (a.after[2] = 0)
            /\ R > 0
            /\ Cube(R - 1) < sum
            /\ sum < Cube(R + 1)

\* C1 witness: a tick in which two live particles of equal radius merged.
C1_Witness ==
    \E k \in 1..Len(frame.absorbs) :
        /\ frame.absorbs[k].before[1] = frame.absorbs[k].before[2]
        /\ frame.absorbs[k].before[1] > 0
        /\ frame.absorbs[k].after = <<0, Cbrt(2 * Cube(frame.absorbs[k].before[1]))>>

\* C2 (as claimed): the population never exceeds a fixed hard cap, for a cap
\* below the number of particles a run of the model may create.
C2_HardCap == \E cap \in 1..(MaxIds - 1) : Len(bubbles) <= cap

Finite3(b) == ~IsNaN(b.x) /\ ~IsNaN(b.y) /\ ~IsNaN(b.z)

Contained(b) ==
    /\ Finite3(b)
    /\ b.radius <= b.x /\ b.x <= WU - b.radius
    /\ b.radius <= b.y /\ b.y <= HU - b.radius
    /\ b.radius <= b.z /\ b.z <= DU - b.radius

\* C3 (as claimed): at the end of every tick every live particle lies within
\* [radius, bound - radius] on every axis.
C3_WallContainment ==
    frame.kind = "tick" =>
        \A k \in 1..Len(frame.drawn) :
            frame.drawn[k].radius > 0 => Contained(frame.drawn[k])

\* The interaction band: distance <= 3 * (r1 + r2).
InBand(b1, b2) ==
    LET dx == NSub(b2.x, b1.x)
        dy == NSub(b2.y, b1.y)
        dz == NSub(b2.z, b1.z)
        distSq == NAdd(NAdd(NMul(dx, dx), NMul(dy, dy)), NMul(dz, dz))
    IN  ~IsNaN(distSq) /\ ~OutOfBand(distSq, b1.radius + b2.radius)

\* The in-band pairs of an all-pairs scan, and those the grid enumerates.
BruteBand(bs) ==
    { {i, j} : <<i, j>> \in { p \in (1..Len(bs)) \X (1..Len(bs)) :
                               p[1] < p[2] /\ InBand(bs[p[1]], bs[p[2]]) } }

GridBand(bs, grid) ==
    LET pairs == GridPairs(grid)
    IN  { {pairs[k][1], pairs[k][2]} :
            k \in { n \in 1..Len(pairs) :
                      /\ pairs[n][1] # pairs[n][2]
                      /\ InBand(bs[pairs[n][1]], bs[pairs[n][2]]) } }

\* C4 (as claimed): in every tick the in-band pairs found through the grid
\* are exactly the in-band pairs of a brute-force scan of the same particles.
C4_GridEqualsBruteForce ==
    frame.kind = "tick" => GridBand(frame.pre, frame.grid) = BruteBand(frame.pre)

\* The request of the quantizer call that has returned.
QDone == qres # NoResult

QAllowedU ==
    { pc * PU : pc \in buildAllowedPitchClasses(qreq.cfg.rootMidi, qreq.cfg.scale,
                                                 qreq.cfg) }

\* C5: the pitch class of every result of quantizeMidiToScale is in the set
\* buildAllowedPitchClasses computes for the same root, scale and flags.
C5_QuantizerLegal == QDone => mod(qres[1], OctU) \in QAllowedU

\* C5 witness: a result under the fallback of the no-thirds filter (a scale
\* of thirds only), for a fractional input in mode "down".
C5_Witness ==
    /\ QDone
    /\ qreq.cfg.noThirds
    /\ qreq.cfg.scale.intervals = {3, 4}
    /\ qreq.cfg.mode = "down"
    /\ qreq.input # NaN
    /\ qreq.input % PU # 0
    /\ mod(qres[1], OctU) \in QAllowedU

\* The call is in "nearest" mode with noImmediateRepeat unset, on a whole
\* pitch whose pitch class is allowed.
QLegalInput ==
    /\ qreq.cfg.mode = "nearest"
    /\ ~qreq.cfg.noImmediateRepeat
    /\ qreq.input # NaN
    /\ qreq.input % PU = 0
    /\ mod(qreq.input, OctU) \in QAllowedU

\* C6: in "nearest" mode with noImmediateRepeat unset a whole pitch of an
\* allowed pitch class is returned unchanged, the leading tone under
\* leading-tone avoidance included.
C6_Idempotent == (QDone /\ QLegalInput) => qres[1] = qreq.input

\* C6 witness: the input is the leading tone of the root, the scale has it,
\* avoidance is active, and the input came back.
C6_Witness ==
    /\ QDone
    /\ QLegalInput
    /\ mod(qreq.input, OctU) = mod(qreq.cfg.rootMidi + 11, 12) * PU
    /\ qreq.cfg.avoidLeadingTone
    /\ qres[1] = qreq.input

\* noImmediateRepeat is set and lastMidi is given.
QRepeatRule == qreq.cfg.noImmediateRepeat /\ qreq.cfg.lastMidi # NaN

QOrdered == Ordered(qreq.input, qreq.cfg)

\* C7: with noImmediateRepeat set, lastMidi given and at least two
\* candidates in the mode-restricted list, the result is not lastMidi: it is
\* the best-ranked candidate that differs from lastMidi.
C7_NoImmediateRepeat ==
    (QDone /\ QRepeatRule /\ Len(QOrdered) >= 2) =>
        /\ qres[1] # qreq.cfg.lastMidi
        /\ \E k \in 1..Len(QOrdered) :
              /\ QOrdered[k].midi = qres[1]
              /\ \A j \in 1..(k - 1) : QOrdered[j].midi = qreq.cfg.lastMidi

\* C7 witness: the best-ranked candidate was lastMidi and was passed over.
C7_Witness ==
    /\ QDone
    /\ QRepeatRule
    /\ Len(QOrdered) >= 2
    /\ QOrdered[1].midi = qreq.cfg.lastMidi
    /\ qres[1] = QOrdered[2].midi

\* Whole pitches (semitones) around the inputs, an octave and more each way.
QNear == (QLow - 13)..(QLow + QSpan + 14)

QLegalPitches == { q * PU : q \in { n \in QNear : mod(n * PU, OctU) \in QAllowedU } }

\* "nearest" mode, no repeat avoidance, no leading-tone avoidance.
QPlainNearest ==
    /\ qreq.cfg.mode = "nearest"
    /\ ~QRepeatRule
    /\ ~(qreq.cfg.avoidLeadingTone \/ qreq.cfg.scale.avoidLT)
    /\ qreq.input # NaN

\* C8: in "nearest" mode without repeat or leading-tone avoidance the result
\* is a legal pitch, no legal pitch is strictly closer to the input, and a
\* legal pitch just as close is higher; input 61 on root 60 with the minor
\* pentatonic gives 60 or 63.
C8_NearestLowerOnTie ==
    (QDone /\ QPlainNearest) =>
        /\ qres[1] \in QLegalPitches
        /\ \A q \in QLegalPitches :
              /\ Abs(q - qreq.input) >= Abs(qres[1] - qreq.input)
              /\ Abs(q - qreq.input) = Abs(qres[1] - qreq.input) => q >= qres[1]
        /\ ( /\ qreq.input = 61 * PU
             /\ qreq.cfg.rootMidi = 60
             /\ qreq.cfg.scale = getScaleById("minor-pentatonic") )
           => qres[1] \in {60 * PU, 63 * PU}

\* C8 witness: two legal pitches were equally close and the lower came back.
C8_Witness ==
    /\ QDone
    /\ QPlainNearest
    /\ \E q \in QLegalPitches :
          /\ q > qres[1]
          /\ q - qreq.input = qreq.input - qres[1]

\* Every particle a frame callback integrated, collided, drew or sounded.
FrameIds ==
    frame.seen
      \cup { frame.integrated[k] : k \in 1..Len(frame.integrated) }
      \cup { frame.trig[k].id : k \in 1..Len(frame.trig) }
      \cup UNION { { frame.absorbs[k].ids[1], frame.absorbs[k].ids[2] }
                   : k \in 1..Len(frame.absorbs) }
      \cup Ids(frame.pre) \cup Ids(frame.drawn)

\* C9: while no particle has been created since the last reset, the array
\* is empty and a frame callback sees no particle; and no particle created
\* before the last reset is integrated, collided, drawn or sounded.
C9_ResetEmpties ==
    /\ nextId = resetMark => (bubbles = <<>> /\ FrameIds = {})
    /\ \A id \in FrameIds \cup Ids(bubbles) : id >= resetMark

\* C9 witness: a frame callback right after a reset that removed particles.
C9_Witness ==
    /\ resetMark > 1
    /\ nextId = resetMark
    /\ frame.kind = "paused"
    /\ FrameIds = {}

Dead(id) == \E i \in 1..Len(bubbles) : bubbles[i].id = id /\ bubbles[i].radius = 0

Absent(id) == id \notin Ids(bubbles)

\* C10: with the cull timer firing, a particle whose radius is 0 is
\* eventually absent from the array; and a cull removes exactly the
\* particles whose radius is 0, keeping the others in their order.
C10_DeadEventuallyCulled ==
    /\ \A id \in 1..MaxIds : Dead(id) ~> Absent(id)
    /\ [][Cleanup => bubbles' = SelectSeq(bubbles, LAMBDA b : b.radius # 0)]_vars

\* C10 witness: a cull that removed a dead particle and kept a live one.
C10_Witness ==
    /\ frame.kind = "cull"
    /\ frame.culled # {}
    /\ \E i \in 1..Len(bubbles) : bubbles[i].radius > 0

\* C11 (as claimed): at every budding the cubes of the radii of parent and
\* child after the fission sum to no more than the cube of the parent's
\* radius before it.
C11_BuddingConservesMass ==
    \A k \in 1..Len(frame.steps) :
        LET st == frame.steps[k]
        IN  st.child # 0 =>
              Cube(st.after.radius) + Cube(st.childRadius) <= Cube(st.walled.radius)

Comps(b) == <<b.x, b.y, b.z, b.vx, b.vy, b.vz>>

\* C12 (as claimed): a position or velocity component that is not finite
\* at the start of a tick has been set to 0 by the end of that tick's
\* integration step.
C12_NaNRecovered ==
    frame.kind = "tick" =>
        \A k \in 1..Len(frame.steps) :
            \A c \in 1..6 :
                IsNaN(Comps(frame.steps[k].before)[c]) =>
                    Comps(frame.steps[k].after)[c] = 0

\* C13: a triggerSound call made while there is no audio context, or while
\* the context is not running, leaves the engine as it was: no node, no
\* timer, no change of state.
C13_TriggerNoOpWithoutBackend ==
    [][ (audio'.calls = audio.calls + 1 /\ audio.ctx # "running")
          => audio' = [audio EXCEPT !.calls = @ + 1] ]_vars

\* C13 witness: every allowed call has been made without init ever having
\* run, and no voice exists.
C13_Witness ==
    /\ audio.calls = MaxCalls
    /\ audio.ctx = "none"
    /\ audio.voices = <<>>

VoiceConnected(i) == i <= Len(audio.voices) /\ audio.voices[i].connected

\* C15 (as claimed): every voice a triggerSound call connects is eventually
\* disconnected, in SYNTH and in SAMPLE mode.
C15_VoicesDisposed ==
    \A i \in 1..MaxCalls : VoiceConnected(i) ~> ~VoiceConnected(i)

\* The distance from neutral that counts as relaxed: 0.1.
Tolerance == SU \div 10

Neutral(b) ==
    /\ ~IsNaN(b.scaleX) /\ Abs(b.scaleX - SU) <= Tolerance
    /\ ~IsNaN(b.scaleY) /\ Abs(b.scaleY - SU) <= Tolerance

\* C14 (as claimed): with blackHole = 0, from any initial deformation, the
\* ticks bring scaleX and scaleY of every particle to within the tolerance of
\* 1.0 and keep them there.
C14_DeformationRelaxes ==
    <>[](\A i \in 1..Len(bubbles) : Neutral(bubbles[i]))

\* The particle of an absorption whose radius becomes the merged radius.
Survivor(a) == IF a.before[1] > a.before[2] THEN a.ids[1] ELSE a.ids[2]

\* C16 (as claimed): on every absorption the trigger is fired for the
\* surviving particle, never for the one whose radius was set to 0.
C16_TriggerForSurvivor ==
    \A k \in 1..Len(frame.absorbs) :
        frame.absorbs[k].trig = Survivor(frame.absorbs[k])

\* The unordered pair of particle indices of the k-th checkCollision call.
CallPair(k) == { frame.calls[k][1], frame.calls[k][2] }

\* C17 (as claimed): within one tick no unordered pair of particles is
\* passed to checkCollision more than once.
C17_PairCheckedOnce ==
    \A k, l \in 1..Len(frame.calls) : k < l => CallPair(k) # CallPair(l)

SwallowedIds == { frame.swallowed[k] : k \in 1..Len(frame.swallowed) }

\* The steps of the integration loop made for the particle id.
StepsOf(id) == { k \in 1..Len(frame.steps) : frame.steps[k].id = id }

\* The indices the grid holds, cell after cell.
GridIndices ==
    LET F[k \in 0..Len(frame.grid)] ==
            IF k = 0 THEN <<>> ELSE F[k - 1] \o frame.grid[k].idx
    IN  F[Len(frame.grid)]

\* C18: in a tick in which the black hole swallows particles, every other
\* particle is integrated exactly once, from its state at the start of the
\* tick; a swallowed particle is not integrated, triggers nothing and is in
\* no grid cell; and every grid index is the index of exactly one step and
\* names, in the array the collisions work on, the particle of that step.
C18_SpliceIndexSafe ==
    (frame.kind = "tick" /\ frame.swallowed # <<>>) =>
        /\ \A i \in 1..Len(frame.start) :
              LET b == frame.start[i]
              IN  IF b.id \in SwallowedIds
                  THEN /\ StepsOf(b.id) = {}
                       /\ \A t \in 1..Len(frame.trig) : frame.trig[t].id # b.id
                       /\ b.id \notin Ids(frame.pre)
                  ELSE /\ Cardinality(StepsOf(b.id)) = 1
                       /\ \A k \in StepsOf(b.id) : frame.steps[k].before = b
        /\ Len(GridIndices) = Len(frame.steps)
        /\ \A k \in 1..Len(frame.steps) :
              /\ \E g \in 1..Len(GridIndices) : GridIndices[g] = frame.steps[k].idx
              /\ frame.steps[k].idx \in 1..Len(frame.pre)
              /\ frame.pre[frame.steps[k].idx] = frame.steps[k].after
        /\ \A g, h \in 1..Len(GridIndices) :
              g # h => GridIndices[g] # GridIndices[h]

\* C18 witness: of three particles the middle one was swallowed, and the
\* ones before and after it in the array were integrated.
C18_Witness ==
    /\ frame.kind = "tick"
    /\ frame.swallowed = <<2>>
    /\ { frame.steps[k].id : k \in 1..Len(frame.steps) } = {1, 3}

\* The vertical velocity change the forces of one tick are claimed to make:
\* gravity, and the pull of the black hole when there is one.
ClaimedDvy(b, phys) ==
    NAdd(GravityDv(phys),
         IF phys.blackHole >= 1 THEN BlackHolePull(b, phys)[2] ELSE 0)

\* C19 (as claimed): for every knob setting, black hole included, every
\* particle the loop integrates has received the gravity acceleration on its
\* vertical velocity before its position is integrated.
C19_GravityAlways ==
    \A k \in 1..Len(frame.steps) :
        LET st == frame.steps[k]
        IN  st.forced.vy = NAdd(st.before.vy, ClaimedDvy(st.before, physics))

\* The distance between two particles, NaN when a coordinate is NaN.
Distance(a, b) ==
    Then(NAdd(NAdd(NMul(NSub(b.x, a.x), NSub(b.x, a.x)),
                   NMul(NSub(b.y, a.y), NSub(b.y, a.y))),
              NMul(NSub(b.z, a.z), NSub(b.z, a.z))),
         LAMBDA sq : IF IsNaN(sq) THEN NaN ELSE Sqrt(sq))

\* The pair of a contact was moved apart to the distance r1 + r2, up to the
\* rounding of the coordinates and of the distance dist the normal is
\* divided by (half a unit in dist, scaled by the overlap).
MovedApart(c) ==
    Then(Distance(c.b1, c.b2), LAMBDA dist :
      /\ NGt(dist, 0)
      /\ NLt(NAbs(NSub(Distance(c.a1, c.a2), c.b1.radius + c.b2.radius)),
             3 + (c.b1.radius + c.b2.radius) \div dist))

\* C20 (as claimed): every pair in strict contact for which absorption is
\* not drawn leaves checkCollision at the distance r1 + r2, with exactly one
\* trigger fired, for the first particle of the pair.
C20_ContactBounced ==
    \A k \in 1..Len(frame.contacts) :
        LET c == frame.contacts[k]
        IN  ~c.eat => (c.trig = <<c.b1.id>> /\ MovedApart(c))

\* dx*dx + dy*dy + dz*dz of a pair, and -(rv . d), its closingSpeed.
PairDistSq(a, b) ==
    NAdd(NAdd(NMul(NSub(b.x, a.x), NSub(b.x, a.x)),
              NMul(NSub(b.y, a.y), NSub(b.y, a.y))),
         NMul(NSub(b.z, a.z), NSub(b.z, a.z)))

ClosingSpeed(a, b) ==
    NSub(0, NAdd(NAdd(NMul(NSub(b.vx, a.vx), NSub(b.x, a.x)),
                      NMul(NSub(b.vy, a.vy), NSub(b.y, a.y))),
                 NMul(NSub(b.vz, a.vz), NSub(b.z, a.z))))

\* The pair is inside the interaction band and is approaching.
Approaching(a, b) ==
    /\ NLt(PairDistSq(a, b), 9 * (a.radius + b.radius) * (a.radius + b.radius))
    /\ NGt(ClosingSpeed(a, b), 0)

\* closingSpeed / max(1, distance), in hundredths.
ClaimedPriority(a, b) ==
    Then(Distance(a, b), LAMBDA dist :
        RDiv(ClosingSpeed(a, b) * 10, IF dist < FP THEN FP ELSE dist))

\* The events of the tests of the tick, in the order of the tests.
TestedEvents ==
    LET F[k \in 0..Len(frame.tests)] ==
            IF k = 0 THEN <<>> ELSE F[k - 1] \o frame.tests[k].events
    IN  F[Len(frame.tests)]

\* Event i of the tick goes before event j in the ranking.
RanksBefore(i, j) ==
    \/ frame.collisionPairs[i].priority > frame.collisionPairs[j].priority
    \/ /\ frame.collisionPairs[i].priority = frame.collisionPairs[j].priority
       /\ i < j

\* pos picks the events of the HUD out of the events of the tick.
IsTopSelection(pos) ==
    /\ \A k \in 1..Len(frame.hud) : frame.hud[k] = frame.collisionPairs[pos[k]]
    /\ \A k \in 1..(Len(frame.hud) - 1) : RanksBefore(pos[k], pos[k + 1])
    /\ \A i \in 1..Len(frame.collisionPairs) :
          (\A k \in 1..Len(frame.hud) : pos[k] # i)
              => /\ Len(frame.hud) = 3
                 /\ RanksBefore(pos[3], i)

\* C21: in every tick an event is recorded for a tested pair exactly when
\* the pair is inside the band 3 * (r1 + r2) and its closing speed is
\* positive, with priority closingSpeed / max(1, distance); the HUD gets at
\* most three events, all of this tick, the highest ranked ones in
\* non-increasing priority, equal priorities in insertion order.
C21_EventsRanked ==
    frame.kind = "tick" =>
        /\ \A k \in 1..Len(frame.tests) :
              LET t == frame.tests[k]
              IN  IF Approaching(t.b1, t.b2)
                  THEN t.events = << [ids |-> <<t.b1.id, t.b2.id>>,
                                      priority |-> ClaimedPriority(t.b1, t.b2)] >>
                  ELSE t.events = <<>>
        /\ Len(frame.tests) = Len(frame.calls)
        /\ frame.collisionPairs = TestedEvents
        /\ Len(frame.hud) <= 3
        /\ \E pos \in [1..Len(frame.hud) -> 1..Len(frame.collisionPairs)] :
              IsTopSelection(pos)

\* C21 witness: a tick with more than three events, two of them of equal
\* priority, one of which reached the HUD while the other did not.
C21_Witness ==
    /\ frame.kind = "tick"
    /\ Len(frame.collisionPairs) > 3
    /\ Len(frame.hud) = 3
    /\ \E i, j \in 1..Len(frame.collisionPairs) :
          /\ i < j
          /\ frame.collisionPairs[i].priority = frame.collisionPairs[j].priority
          /\ frame.hud[3] = frame.collisionPairs[i]
          /\ \A k \in 1..3 : frame.hud[k] # frame.collisionPairs[j]

\* bubbles' is bubbles with one spawned particle appended.
OneSpawned ==
    /\ Len(bubbles') = Len(bubbles) + 1
    /\ SubSeq(bubbles', 1, Len(bubbles)) = bubbles

\* C22: while isPlaying is false no simulation tick runs; a frame callback
\* leaves every particle, the collection and the id counter as they were and
\* fires no trigger; the collection changes only by a user spawn, by the
\* cull timer or by reset.
C22_PausedFreezes ==
    [][ ~isPlaying =>
          /\ frame'.kind # "tick"
          /\ frame'.kind = "paused" =>
                (bubbles' = bubbles /\ nextId' = nextId /\ frame'.trig = <<>>)
          /\ bubbles' # bubbles =>
                (OneSpawned \/ bubbles' = Cull(bubbles) \/ bubbles' = <<>>) ]_vars

\* C22 witness: a frame was drawn while paused, after a tick had left a
\* moving particle in the room.
C22_Witness ==
    /\ frame.kind = "paused"
    /\ ~isPlaying
    /\ ticks > 0
    /\ \E i \in 1..Len(bubbles) : bubbles[i].radius > 0 /\ bubbles[i].vx # 0

\* The props of the latest render of the Visualizer.
Rendered == Config(isPlaying, physics, baseFrequency)

\* C23: only one frame loop is ever active.  After any sequence of renders
\* caused by play / pause, knob changes and base-frequency changes at most
\* one animation-frame request is pending, and every frame callback (tick or
\* paused draw) runs with the props of the latest render.
C23_OneFrameLoop ==
    /\ [](Len(loop.pending) <= 1)
    /\ [][ frame'.kind \in {"tick", "paused"} => frame'.cfg = Rendered ]_vars

\* A tick that ran after the knobs and the base frequency had been changed
\* and play had been pressed, on a particle.
C23_Witness ==
    /\ frame.kind = "tick"
    /\ Len(frame.start) > 0
    /\ frame.cfg.baseFrequency = 220
    /\ frame.cfg.physics # DefaultPhysics
    /\ Len(loop.pending) = 1
    /\ loop.requestRef = 1
\* The input the call works with, and the candidate set built for it.
QSafe == SafeInput(qreq.input, qreq.cfg)

QCandidates ==
    buildCandidates(QSafe, buildAllowedPitchClasses(qreq.cfg.rootMidi,
                                                    qreq.cfg.scale, qreq.cfg))

QBelow == { c \in QCandidates : c <= QSafe }

QAbove == { c \in QCandidates : c >= QSafe }

\* The same call in "nearest" mode.
QUnrestricted == quantizeMidiToScale(qreq.input, [qreq.cfg EXCEPT !.mode = "nearest"])

\* C24: in "down" mode the result is a legal candidate at or below the input
\* and in "up" mode one at or above it whenever the candidate set has one,
\* also when the repeat rule replaces the first choice; the result of the
\* unrestricted ordering comes back only when no candidate qualifies.
C24_DirectionRespected ==
    QDone =>
        /\ (qreq.cfg.mode = "down" /\ QBelow # {}) =>
              (qres[1] \in QBelow /\ mod(qres[1], OctU) \in QAllowedU)
        /\ (qreq.cfg.mode = "up" /\ QAbove # {}) =>
              (qres[1] \in QAbove /\ mod(qres[1], OctU) \in QAllowedU)
        /\ (qreq.cfg.mode = "down" /\ QBelow = {}) => qres[1] = QUnrestricted
        /\ (qreq.cfg.mode = "up" /\ QAbove = {}) => qres[1] = QUnrestricted

\* C24 witness: "down" mode on a fractional input, the best candidate below
\* was lastMidi and the repeat rule took the next one below, while the
\* unrestricted call goes above the input.
C24_Witness ==
    /\ QDone
    /\ qreq.cfg.mode = "down"
    /\ QRepeatRule
    /\ qreq.input # NaN
    /\ qreq.input % PU # 0
    /\ Len(QOrdered) >= 2
    /\ QOrdered[1].midi = qreq.cfg.lastMidi
    /\ qres[1] = QOrdered[2].midi
    /\ qres[1] < qreq.input
    /\ QUnrestricted > qreq.input
\* The pitch classes buildAllowedPitchClasses returned for the call.
QAllowed ==
    buildAllowedPitchClasses(qreq.cfg.rootMidi, qreq.cfg.scale, qreq.cfg)

\* The pitch class n semitones above the root.
QAbovePc(n) == mod(mod(qreq.cfg.rootMidi, 12) + n, 12)

\* The no-thirds exclusion applies to the call.
QNoThirds == qreq.cfg.noThirds \/ qreq.cfg.scale.no3rd

\* C25: the allowed set is never empty.  Under the no-thirds exclusion it
\* has no pitch class 3 or 4 semitones above the root, unless the scale has
\* nothing else: then it is the whole scale, or the root for a scale without
\* intervals.  The quantizer returns a whole, finite pitch of an allowed
\* pitch class.
C25_NoThirdsNeverEmpty ==
    QDone =>
        /\ QAllowed # {}
        /\ QNoThirds =>
              IF qreq.cfg.scale.intervals \ {3, 4} # {}
              THEN QAllowed \cap {QAbovePc(3), QAbovePc(4)} = {}
              ELSE IF qreq.cfg.scale.intervals # {}
              THEN QAllowed = { QAbovePc(i) : i \in qreq.cfg.scale.intervals }
              ELSE QAllowed = {QAbovePc(0)}
        /\ qres[1] # NaN
        /\ qres[1] % PU = 0
        /\ mod(qres[1], OctU) \in { pc * PU : pc \in QAllowed }

\* C25 witness: a call under the exclusion on a scale of thirds only came
\* back with a third of the root.
C25_Witness ==
    /\ QDone
    /\ QNoThirds
    /\ qreq.cfg.scale.intervals # {}
    /\ qreq.cfg.scale.intervals \subseteq {3, 4}
    /\ mod(qres[1], OctU) \in {QAbovePc(3) * PU, QAbovePc(4) * PU}
\* 1 - clamp(radius / 180, 0, 1), in thousandths.
ClampedSizeFactor(radius) ==
    LET q == NMulDiv(radius, SU, 180 * FP)
    IN  IF NLt(q, 0) THEN SU ELSE IF NGt(q, SU) THEN 0 ELSE NSub(SU, q)

\* C26 (as claimed): the size factor of every trigger of a frame is
\* 1 - clamp(radius / 180, 0, 1) and lies in [0, 1].
C26_SizeFactorClamped ==
    \A k \in 1..Len(frame.trig) :
        /\ frame.trig[k].sizeFactor = ClampedSizeFactor(frame.trig[k].radius)
        /\ frame.trig[k].sizeFactor >= 0
        /\ frame.trig[k].sizeFactor <= SU
\* C27 (as claimed): at the end of every tick the z coordinate of every
\* particle is a number in [0, DEPTH], for the particles the collision pass
\* moved and for budded children too.
C27_DepthContained ==
    frame.kind = "tick" =>
        \A k \in 1..Len(bubbles) :
            /\ ~IsNaN(bubbles[k].z)
            /\ 0 <= bubbles[k].z
            /\ bubbles[k].z <= DU
\* The collision call left position, velocity and radius of b as they were
\* (a is b after the call).
Untouched(b, a) ==
    /\ a.x = b.x /\ a.y = b.y /\ a.z = b.z
    /\ a.vx = b.vx /\ a.vy = b.vy /\ a.vz = b.vz
    /\ a.radius = b.radius

\* C28 (as claimed): a collision call between a live particle and a dead one
\* (radius 0, not yet culled) leaves the velocity, position and radius of
\* the live particle as they were.
C28_DeadInert ==
    \A k \in 1..Len(frame.contacts) :
        LET c == frame.contacts[k]
        IN  /\ (c.b1.radius > 0 /\ c.b2.radius = 0) => Untouched(c.b1, c.a1)
            /\ (c.b2.radius > 0 /\ c.b1.radius = 0) => Untouched(c.b2, c.a2)
\* C29: transport and audio lifecycle stay in step.  Once play / pause or
\* stop has been pressed, the last of the resume() / suspend() calls App
\* issued is resume() exactly while isPlaying and suspend() exactly while
\* not; init() created a context at most once, and no resume() was issued
\* before it.
C29_LifecycleInStep ==
    /\ lifecycle.last = "resume" <=> isPlaying
    /\ lifecycle.last # "none" => (lifecycle.last = "suspend" <=> ~isPlaying)
    /\ lifecycle.inits <= 1
    /\ lifecycle.resumed => (lifecycle.inits = 1 /\ ~lifecycle.early)
    /\ (lifecycle.inits = 1) <=> (audio.ctx # "none")
    /\ hasInteracted <=> (lifecycle.inits = 1)

\* C29 witness: stop was pressed after the instrument had played, with
\* particles in the room; the engine is suspended.
C29_Witness ==
    /\ lifecycle.last = "suspend"
    /\ lifecycle.resumed
    /\ lifecycle.inits = 1
    /\ ~isPlaying
    /\ audio.ctx = "suspended"
    /\ resetMark > 1
    /\ ticks > 0
    /\ bubbles = <<>>
\* C30 (as claimed): once every pointer is up again, or the Knob has
\* unmounted, none of the knob's pointermove / pointerup / pointercancel
\* listeners is left on window and isDragging is false.
C30_NoListenerLeft ==
    (knob.down = {} \/ ~knob.mounted) =>
        (knob.listeners = {} /\ ~knob.isDragging)
====
